---- MODULE Spec2Model ----
(***************************************************************************)
(* Matsu: the spectral Analyser (construct -> Analyse* -> destroy).        *)
(*                                                                         *)
(* Two editions of the Analyser live in the repository and both are        *)
(* modelled; `impl` says which one an instance is:                         *)
(*   "cpp"  matsu::Analyser of source/matsu.cpp (used by analyser.cpp)     *)
(*   "hpp"  Analyser of source/matsu.hpp (used by 606-hat-open.cpp)        *)
(* The members keep the names of matsu.cpp; in matsu.hpp they are called   *)
(*   m_buffer_a = window_a   m_buffer_b = window_b   (raw sample windows)  *)
(*   m_window_a = window_c   m_window_b = window_d   (FFT in/out)          *)
(*                                                                         *)
(* Numbers.  float values are fixed-point integers, FloatOne units to 1.0. *)
(* Window lengths are 2 and 4, for which the Hann window (0, 1) and        *)
(* (0, 1/2, 1, 1/2) and the DFT twiddles (+-1, +-i) are exact; samples are *)
(* even numbers of units so that the product with 1/2 is exact.  sqrtf and *)
(* the float division round down to the unit.                              *)
(*                                                                         *)
(* After the Analyser come the programs that construct one (ReadSettings   *)
(* and main of analyser.cpp, main of 606-hat-open.cpp) and the other       *)
(* primitives of matsu: the envelope, the oscillators, the filters and the *)
(* noise generator.  Each is one variable, a record of the members of the  *)
(* object, and has a specification of its own (SpecSettings, SpecEnvelope, *)
(* SpecOscillator, SpecFilter, SpecNoise) in which the rest stands still.  *)
(* Last come Distortion (SpecDistortion), the tuner that is main of        *)
(* 606-hat-open.cpp (SpecTuner), the renders of 606-hats.cpp (SpecHat) and *)
(* the exports to WAV and PNG (SpecExport), one variable each as well.     *)
(***************************************************************************)
EXTENDS Integers, Sequences, FiniteSets, TLC

\* ---- bounds of the model
MaxLen == 2          \* longest stream a source delivers
MaxOverlaps == 5     \* overlaps_no ranges over 1..MaxOverlaps

\* ---- program constants
DiffScale == 10000   \* the 10000.0f of `m_window_a[i] * 10000.0f`

FloatOne == 4 * DiffScale
WindowLengths == {2, 4}
MaxWindowLength == 2 * 2
\* the sample values a source delivers: silence and one level
Samples == {0, 16}
Streams == UNION {[1..n -> Samples] : n \in 0..MaxLen}
\* more iterations than any stream of the model needs with a hop >= 1
MaxWindows == MaxLen + MaxWindowLength + 3

Resources == {"pffft", "buffer_a", "buffer_b", "window_a", "window_b", "work_area"}
\* the order the constructor obtains them in
ResourceOrder == <<"pffft", "buffer_a", "buffer_b", "window_a", "window_b", "work_area">>

VARIABLES
    impl,              \* "cpp" | "hpp" ("none" before construction)
    life,              \* "none" | "ok" | "failed" | "destroyed"
    handle,            \* member pointer: "null" | "live" | "dangling"
    acquired,          \* resource -> times obtained
    released,          \* resource -> times released
    m_window_length,
    m_to_read_length,
    m_buffer_a, m_buffer_b,
    pc,                \* position in Analyse
    reused,            \* whether an earlier Analyse call has returned on this instance
    input_a, input_b,  \* what the two sources still have to deliver
    stream_a, stream_b,\* what they had at the start of the call
    read1, read2,
    ret,               \* Output ret: windows, difference
    diff_sum, diff_div,
    reads_a, reads_b,  \* read counts returned so far in this call
    output_log         \* the invocations of output_callback in this call

analyserVars == <<impl, life, handle, acquired, released, m_window_length, m_to_read_length,
                  m_buffer_a, m_buffer_b, pc, reused,
                  input_a, input_b, stream_a, stream_b, read1, read2,
                  ret, diff_sum, diff_div, reads_a, reads_b, output_log>>

\* the programs around the Analyser and the other primitives of matsu, one
\* variable per object, a record of its members
VARIABLES
    cmd,               \* the command line of the analyser tool: -w and -s as given
    settings,          \* Settings of analyser.cpp after ReadSettings
    analyser_args,     \* the arguments a program gave to the Analyser constructor
    envelope,          \* AdEnvelope (matsu.cpp), AdEnvelope / AdEnvelope2 (matsu.hpp)
    oscillator,        \* Oscillator (matsu.cpp), Oscillator / Oscillator2 (matsu.hpp)
    square,            \* SquareOscillator
    onepole,           \* OnePoleFilter
    twopoles,          \* TwoPolesFilter
    noise              \* NoiseGenerator

dspVars == <<cmd, settings, analyser_args, envelope, oscillator, square, onepole, twopoles, noise>>

\* the free functions and the programs that render and export, one variable
\* per call or program, a record of its arguments, locals and result
VARIABLES
    distorted,         \* a call of Distortion and what it returned
    tuner,             \* main of 606-hat-open.cpp: its locals and its position
    hat,               \* main of 606-hats.cpp: render_buffer and the renders made
    exported           \* a call of an export function, the failures met, its result

programVars == <<distorted, tuner, hat, exported>>

vars == <<analyserVars, dspVars, programVars>>

memberVars == <<impl, life, handle, acquired, released, m_window_length, m_to_read_length>>
bufferVars == <<m_buffer_a, m_buffer_b>>
callVars == <<input_a, input_b, stream_a, stream_b, read1, read2,
              ret, diff_sum, diff_div, reads_a, reads_b, output_log>>

\* an object that is not constructed (yet)
None == [kind |-> "none"]

\* Output ret = {}
EmptyOutput == [windows |-> 0, difference |-> [num |-> 0, den |-> 1]]

\* ---- helpers
Min(a, b) == IF a < b THEN a ELSE b
Zeros(n) == [i \in 0..(n - 1) |-> 0]
Filled(n, v) == [i \in 0..(n - 1) |-> v]
Isqrt(n) == CHOOSE r \in 0..n : r * r <= n /\ (r + 1) * (r + 1) > n


\* ---- the sources: read callbacks over a finite stream
\* input_callback(to_read_length, out): how many samples the source hands over
SourceRead(input, to_read_length) == Min(to_read_length, Len(input))
SourceRest(input, n) == SubSeq(input, n + 1, Len(input))

\* ---- construction and destruction
Pos(r) == CHOOSE i \in 1..Len(ResourceOrder) : ResourceOrder[i] = r
\* the resources obtained when the acquisition of failAt is the first to fail
Obtained(failAt) ==
    IF failAt = "none" THEN Resources
    ELSE {r \in Resources : Pos(r) < Pos(failAt)}

\* `if (p != nullptr) release(p);`: the member keeps its value
HandleAfterRelease(h) == IF h = "live" THEN "dangling" ELSE h
ReleaseCount(h) == IF h # "null" THEN 1 ELSE 0

\* the six `if (x != nullptr) release(x);` lines of return_failure and of ~Analyser
HandlesAfterFree(h) == [r \in Resources |-> HandleAfterRelease(h[r])]
ReleasedAfterFree(h, rel) == [r \in Resources |-> rel[r] + ReleaseCount(h[r])]

\* the members after the acquisitions: the in-class initialiser (nullptr) where
\* the acquisition failed or was never attempted
HandlesObtained(failAt) ==
    [r \in Resources |-> IF r \in Obtained(failAt) THEN "live" ELSE "null"]

Analyser(which, window_length, overlaps_no, failAt, junk) ==
    /\ life = "none"
    /\ impl' = which
    /\ m_window_length' = window_length
    /\ m_to_read_length' = window_length \div overlaps_no
    /\ acquired' = [r \in Resources |-> IF r \in Obtained(failAt) THEN 1 ELSE 0]
    /\ IF failAt = "none"
       THEN /\ handle' = HandlesObtained(failAt)
            /\ released' = released
            /\ life' = "ok"
       ELSE \* return_failure
            /\ handle' = HandlesAfterFree(HandlesObtained(failAt))
            /\ released' = ReleasedAfterFree(HandlesObtained(failAt), released)
            /\ life' = "failed"
    \* matsu.hpp clears the raw windows here; matsu.cpp leaves what malloc gave
    /\ m_buffer_a' = IF which = "hpp" THEN Zeros(window_length) ELSE Filled(window_length, junk)
    /\ m_buffer_b' = IF which = "hpp" THEN Zeros(window_length) ELSE Filled(window_length, junk)
    /\ UNCHANGED <<pc, reused>>
    /\ UNCHANGED callVars
    /\ UNCHANGED <<dspVars, programVars>>

Destroy ==
    /\ life \in {"ok", "failed"}
    /\ pc \in {"idle", "done"}
    /\ life' = "destroyed"
    /\ released' = ReleasedAfterFree(handle, released)
    /\ handle' = HandlesAfterFree(handle)
    /\ UNCHANGED <<impl, acquired, m_window_length, m_to_read_length, pc, reused>>
    /\ UNCHANGED bufferVars
    /\ UNCHANGED callVars
    /\ UNCHANGED <<dspVars, programVars>>

Init ==
    /\ impl = "none"
    /\ life = "none"
    /\ handle = [r \in Resources |-> "null"]
    /\ acquired = [r \in Resources |-> 0]
    /\ released = [r \in Resources |-> 0]
    /\ m_window_length = 0
    /\ m_to_read_length = 0
    /\ m_buffer_a = <<>>
    /\ m_buffer_b = <<>>
    /\ pc = "idle"
    /\ reused = FALSE
    /\ input_a = <<>>
    /\ input_b = <<>>
    /\ stream_a = <<>>
    /\ stream_b = <<>>
    /\ read1 = 0
    /\ read2 = 0
    /\ ret = EmptyOutput
    /\ diff_sum = 0
    /\ diff_div = 0
    /\ reads_a = <<>>
    /\ reads_b = <<>>
    /\ output_log = <<>>
    /\ cmd = None
    /\ settings = None
    /\ analyser_args = None
    /\ envelope = None
    /\ oscillator = None
    /\ square = None
    /\ onepole = None
    /\ twopoles = None
    /\ noise = None
    /\ distorted = None
    /\ tuner = None
    /\ hat = None
    /\ exported = None


\* ---- buffer operations of Analyse
\* the callback writes n samples at out = buffer + window_length - to_read_length
WriteTail(buf, N, hop, input, n) ==
    [i \in 0..(N - 1) |->
        IF i >= N - hop /\ i < N - hop + n THEN input[i - (N - hop) + 1] ELSE buf[i]]

\* memset(buf + from, 0, sizeof(float) * count)
Memset(buf, N, from, count) ==
    [i \in 0..(N - 1) |-> IF i >= from /\ i < from + count THEN 0 ELSE buf[i]]

\* for (i = 0; i < N - hop; i += 1) buf[i] = buf[i + hop];
Scroll(buf, N, hop) ==
    [i \in 0..(N - 1) |-> IF i < N - hop THEN buf[i + hop] ELSE buf[i]]

\* we_still_have_content, computed on the scrolled primary buffer
HasContent(buf, N, hop) == \E i \in 0..(N - hop - 1) : buf[i] # 0

\* twice the Hann window 0.5 * (1 - cos(2 pi i / N)), for N in {2, 4}
Cos4(k) == CASE k % 4 = 0 -> 1 [] k % 4 = 1 -> 0 [] k % 4 = 2 -> -1 [] OTHER -> 0
Hann2(i, N) == 1 - Cos4(i * (4 \div N))
ApplyWindow(buf, N) == [i \in 0..(N - 1) |-> (buf[i] * Hann2(i, N)) \div 2]

\* pffft_transform_ordered(PFFFT_REAL, PFFFT_FORWARD): interleaved re/im, the
\* real DC and Nyquist terms packed in the first pair
Pffft(w, N) ==
    IF N = 2
    THEN [i \in 0..1 |-> IF i = 0 THEN w[0] + w[1] ELSE w[0] - w[1]]
    ELSE [i \in 0..3 |->
            CASE i = 0 -> w[0] + w[1] + w[2] + w[3]
              [] i = 1 -> w[0] - w[1] + w[2] - w[3]
              [] i = 2 -> w[0] - w[2]
              [] OTHER -> w[3] - w[1]]

\* sqrtf(powf(re, 2) + powf(im, 2)) / (N / 2)
Magnitude(f, i, N) == Isqrt(f[i * 2] * f[i * 2] + f[i * 2 + 1] * f[i * 2 + 1]) \div (N \div 2)
\* sqrtf(powf(magnitude1 - magnitude2, 2))
Distance(m1, m2) == Isqrt((m1 - m2) * (m1 - m2))
\* a conversion that rounds to the nearest integer instead
ToLongNearest(x) == (2 * x * DiffScale + FloatOne) \div (2 * FloatOne)
\* static_cast<long>(x * 10000.0f)
ToLong(x) == (x * DiffScale) \div FloatOne

\* the spectrum loop in single mode: magnitudes written over the first half
Spectrum(f, N) ==
    [i \in 0..(N - 1) |-> IF i < N \div 2 THEN Magnitude(f, i, N) ELSE f[i]]
\* the spectrum loop in comparing mode: distances written over the first half
SpectrumDistance(fa, fb, N) ==
    [i \in 0..(N - 1) |->
        IF i < N \div 2 THEN Distance(Magnitude(fa, i, N), Magnitude(fb, i, N)) ELSE fa[i]]

\* the bins the comparing loop visits
ComparedBins(N) == 0..((N \div 2) - 1)

RECURSIVE SumOver(_, _)
SumOver(f, S) ==
    IF S = {} THEN 0
    ELSE LET x == CHOOSE y \in S : TRUE IN f[x] + SumOver(f, S \ {x})

\* ret.difference = double(diff_sum) / double(diff_div), kept as a fraction;
\* left as `ret = {}` set it when diff_div is 0
Difference(sum, div) ==
    IF div # 0 THEN [num |-> sum, den |-> div] ELSE [num |-> 0, den |-> 1]

\* ---- Analyse, one action per step of an iteration
Analyse(sa, sb) ==
    /\ life = "ok"
    /\ pc \in {"idle", "done"}
    /\ reused' = (pc = "done")
    /\ stream_a' = sa /\ input_a' = sa
    /\ stream_b' = sb /\ input_b' = sb
    /\ ret' = EmptyOutput /\ diff_sum' = 0 /\ diff_div' = 0
    /\ read1' = 0 /\ read2' = 0
    /\ reads_a' = <<>> /\ reads_b' = <<>> /\ output_log' = <<>>
    \* matsu.cpp clears the raw windows on entry, matsu.hpp does not
    /\ m_buffer_a' = IF impl = "cpp" THEN Zeros(m_window_length) ELSE m_buffer_a
    /\ m_buffer_b' = IF impl = "cpp" THEN Zeros(m_window_length) ELSE m_buffer_b
    /\ pc' = "read1"
    /\ UNCHANGED memberVars
    /\ UNCHANGED <<dspVars, programVars>>

\* where the zero padding of the secondary window starts, and how long it is
PadFrom1(N, hop, r1) == N - hop + r1
PadFrom2(N, hop, r1, r2) == IF impl = "cpp" THEN N - hop + r2 ELSE N - hop + r1
PadCount2(hop, r1, r2) == IF impl = "cpp" THEN hop - r2 ELSE hop - r1
PadsSecondary(hop, r2) == IF impl = "cpp" THEN r2 # hop ELSE r2 # 0 /\ r2 # hop

ReadPrimary ==
    /\ pc = "read1"
    /\ ret.windows < MaxWindows
    /\ LET N == m_window_length
           hop == m_to_read_length
           n == SourceRead(input_a, hop)
           got == WriteTail(m_buffer_a, N, hop, input_a, n)
       IN /\ read1' = n
          /\ input_a' = SourceRest(input_a, n)
          /\ m_buffer_a' = IF n # hop THEN Memset(got, N, PadFrom1(N, hop, n), hop - n) ELSE got
          /\ reads_a' = Append(reads_a, n)
    /\ pc' = "read2"
    /\ UNCHANGED <<m_buffer_b, reused, input_b, stream_a, stream_b,
                   read2, ret, diff_sum, diff_div, reads_b, output_log>>
    /\ UNCHANGED memberVars
    /\ UNCHANGED <<dspVars, programVars>>

ReadSecondary ==
    /\ pc = "read2"
    /\ LET N == m_window_length
           hop == m_to_read_length
           n == SourceRead(input_b, hop)
           got == WriteTail(m_buffer_b, N, hop, input_b, n)
       IN /\ read2' = n
          /\ input_b' = SourceRest(input_b, n)
          /\ m_buffer_b' = IF PadsSecondary(hop, n)
                           THEN Memset(got, N, PadFrom2(N, hop, read1, n), PadCount2(hop, read1, n))
                           ELSE got
          /\ reads_b' = Append(reads_b, n)
    /\ pc' = "process"
    /\ UNCHANGED <<m_buffer_a, reused, input_a, stream_a, stream_b,
                   read1, ret, diff_sum, diff_div, reads_a, output_log>>
    /\ UNCHANGED memberVars
    /\ UNCHANGED <<dspVars, programVars>>

\* the index as it would be were ret.windows incremented after the call
CallbackIndexBefore(windows_before) == windows_before
\* the index output_callback is given: ret.windows, incremented before the call
CallbackIndex(windows_before) == windows_before + 1

\* window function, Fourier, ret.windows += 1, spectrum, output_callback.
\* m_window_a and m_window_b are written in full by the window loop before they
\* are read, so their content is local to this step; what output_callback is
\* handed (index, length, m_window_a) is kept in output_log.
Process ==
    /\ pc = "process"
    /\ LET N == m_window_length
           fa == Pffft(ApplyWindow(m_buffer_a, N), N)
           fb == Pffft(ApplyWindow(m_buffer_b, N), N)
           m_window_a == IF read2 = 0 THEN Spectrum(fa, N) ELSE SpectrumDistance(fa, fb, N)
       IN /\ ret' = [ret EXCEPT !.windows = @ + 1]
          /\ IF read2 = 0
             THEN UNCHANGED <<diff_sum, diff_div>>
             ELSE /\ diff_sum' = diff_sum + SumOver([i \in ComparedBins(N) |-> ToLong(m_window_a[i])],
                                                    ComparedBins(N))
                  /\ diff_div' = diff_div + Cardinality(ComparedBins(N))
          /\ output_log' = Append(output_log,
                                  [index |-> CallbackIndex(ret.windows), length |-> N,
                                   data |-> m_window_a,
                                   reads |-> <<Len(reads_a), Len(reads_b)>>])
    /\ pc' = "next"
    /\ UNCHANGED <<reused, input_a, input_b, stream_a, stream_b, read1, read2,
                   reads_a, reads_b>>
    /\ UNCHANGED bufferVars
    /\ UNCHANGED memberVars
    /\ UNCHANGED <<dspVars, programVars>>

\* whether the loop is left after this window
Breaks(N, hop, r1, r2, scrolled_a) ==
    IF impl = "cpp"
    THEN ~HasContent(scrolled_a, N, hop) /\ (r1 # hop \/ r2 # hop)
    ELSE r1 # hop \/ (r2 # 0 /\ r2 # hop)

\* scroll and "Next step?" (matsu.cpp), "Next step?" and scroll (matsu.hpp)
NextStep ==
    /\ pc = "next"
    /\ LET N == m_window_length
           hop == m_to_read_length
           sa == Scroll(m_buffer_a, N, hop)
           sb == IF read2 # 0 THEN Scroll(m_buffer_b, N, hop) ELSE m_buffer_b
           out == Breaks(N, hop, read1, read2, sa)
       IN /\ m_buffer_a' = IF impl = "hpp" /\ out THEN m_buffer_a ELSE sa
          /\ m_buffer_b' = IF impl = "hpp" /\ out THEN m_buffer_b ELSE sb
          /\ IF out
             THEN /\ ret' = [ret EXCEPT !.difference = Difference(diff_sum, diff_div)]
                  /\ pc' = "done"
             ELSE /\ ret' = ret
                  /\ pc' = "read1"
    /\ UNCHANGED <<reused, input_a, input_b, stream_a, stream_b,
                   read1, read2, diff_sum, diff_div, reads_a, reads_b, output_log>>
    /\ UNCHANGED memberVars
    /\ UNCHANGED <<dspVars, programVars>>

\* Analyse on an instance whose construction failed: the code has no check, and
\* the first statement writes through a released or null pointer
AnalyseInvalid ==
    /\ life = "failed"
    /\ pc = "idle"
    /\ pc' = "undefined"
    /\ UNCHANGED reused
    /\ UNCHANGED memberVars
    /\ UNCHANGED bufferVars
    /\ UNCHANGED callVars
    /\ UNCHANGED <<dspVars, programVars>>

Construct ==
    \E which \in {"cpp", "hpp"}, N \in WindowLengths :
    \E ov \in 1..Min(MaxOverlaps, N + 1),
       failAt \in {"none"} \cup Resources, junk \in Samples :
        Analyser(which, N, ov, failAt, junk)

Call == \E sa \in Streams, sb \in Streams : Analyse(sa, sb)

Next ==
    \/ Construct
    \/ Call
    \/ ReadPrimary
    \/ ReadSecondary
    \/ Process
    \/ NextStep
    \/ AnalyseInvalid
    \/ Destroy

Spec == Init /\ [][Next]_vars


\* ---- properties of Analyse and of the lifetime
InCall == pc \in {"read1", "read2", "process", "next"}
\* the reads of `reads` that returned fewer samples than the hop asked for
ShortReads(reads) == {k \in 1..Len(reads) : reads[k] < m_to_read_length}
\* sample j (from 0) of a stream, zero before its start and past its end
StreamAt(stream, j) == IF j >= 0 /\ j < Len(stream) THEN stream[j + 1] ELSE 0
\* the windows of this call in which the spectra were compared
ComparedWindows == {k \in 1..Len(output_log) : reads_b[k] # 0}
Bins == 0..((m_window_length \div 2) - 1)
\* the integer nearest to x * 10000 (x in units), and x * 10000 cut to an integer
NearestScaled(x) ==
    CHOOSE n \in 0..(x + 1) : 2 * n * FloatOne - FloatOne <= 2 * x * DiffScale
                              /\ 2 * x * DiffScale < 2 * n * FloatOne + FloatOne
CutScaled(x) ==
    CHOOSE n \in 0..(x + 1) : n * FloatOne <= x * DiffScale /\ x * DiffScale < (n + 1) * FloatOne

RECURSIVE SumLog(_, _)
\* the sum, over the compared windows in K and their bins, of Scaled(distance)
\* as output_callback saw the distances; Scaled is "nearest" or "cut"
SumLog(K, how) ==
    IF K = {} THEN 0
    ELSE LET k == CHOOSE x \in K : TRUE
             d == output_log[k].data
             one == IF how = "nearest"
                    THEN SumOver([i \in Bins |-> NearestScaled(d[i])], Bins)
                    ELSE SumOver([i \in Bins |-> CutScaled(d[i])], Bins)
         IN one + SumLog(K \ {k}, how)

\* C1: the loop of Analyse ends right after the first window whose primary read
\* returned fewer samples than requested, and never while every primary read so
\* far returned the full count.
C1_LoopEndsAtFirstShortRead ==
    /\ pc = "done" => ShortReads(reads_a) = {Len(reads_a)}
    /\ pc = "read1" => ShortReads(reads_a) = {}

\* C2: Analyse returns once the finite primary stream is used up, whatever
\* positive overlaps_no the instance was built with: a call never analyses more
\* windows than the stream has samples, plus the windows that drain the buffer.
C2_AnalyseReturns ==
    InCall => ret.windows <= Len(stream_a) + m_window_length + 1

\* C3: output_callback is invoked once per analysed window, after that
\* iteration's one read of each source; the k-th invocation gets index k and the
\* window length of the constructor, and at return there are ret.windows of them.
C3_OnWindowOncePerWindow ==
    /\ Len(output_log) = ret.windows
    /\ \A k \in 1..Len(output_log) :
        /\ output_log[k].index = k
        /\ output_log[k].length = m_window_length
        /\ output_log[k].reads = <<k, k>>
    /\ pc \in {"next", "done"} =>
        /\ Len(reads_a) = ret.windows
        /\ Len(reads_b) = ret.windows
C3_Witness ==
    /\ pc = "done"
    /\ ret.windows >= 3
    /\ stream_b # <<>>

\* C4: two sources that deliver the same stream give Output.difference = 0,
\* whatever the length of the stream.
C4_IdenticalStreamsNoDifference ==
    (pc = "done" /\ stream_a = stream_b /\ stream_b # <<>>) => ret.difference.num = 0

\* C5: when window k is analysed, position p of the primary raw window holds
\* sample k * hop - N + p of this call's stream, zero outside the stream.
C5_WindowHoldsStream ==
    pc = "process" =>
        \A p \in 0..(m_window_length - 1) :
            m_buffer_a[p] = StreamAt(stream_a,
                                     (ret.windows + 1) * m_to_read_length - m_window_length + p)

\* C6: a read that returned r < hop samples (the secondary: 0 < r < hop) leaves
\* positions N - hop + r .. N - 1 of its own raw window zero when the window is
\* analysed, whatever the other read returned.
C6_ShortReadZeroPadded ==
    pc = "process" =>
        /\ read1 < m_to_read_length =>
            \A p \in (m_window_length - m_to_read_length + read1)..(m_window_length - 1) :
                m_buffer_a[p] = 0
        /\ (0 < read2 /\ read2 < m_to_read_length) =>
            \A p \in (m_window_length - m_to_read_length + read2)..(m_window_length - 1) :
                m_buffer_b[p] = 0

\* C7: with two sources of the same length every analysed window adds its N/2
\* bins to the count; with no secondary source nothing is compared and the
\* difference is 0.
C7_EveryWindowCompared ==
    pc = "done" =>
        /\ (Len(stream_a) = Len(stream_b) /\ stream_b # <<>>) =>
                diff_div = ret.windows * (m_window_length \div 2)
        /\ stream_b = <<>> => (diff_div = 0 /\ ret.difference.num = 0)

\* C8 as stated: each compared bin adds the integer nearest to distance * 10000
\* to the sum and 1 to the count; Output.difference is the sum over the count.
C8_SumOfNearest ==
    /\ diff_sum = SumLog(ComparedWindows, "nearest")
    /\ diff_div = Cardinality(ComparedWindows) * Cardinality(Bins)
    /\ pc = "done" => ret.difference = Difference(diff_sum, diff_div)

\* C8 as amended: each compared bin adds distance * 10000 cut to an integer
\* (toward zero) to the sum and 1 to the count; Output.difference is the sum
\* over the count, and 0 when nothing was compared.
C8_SumOfCut ==
    /\ diff_sum = SumLog(ComparedWindows, "cut")
    /\ diff_div = Cardinality(ComparedWindows) * Cardinality(Bins)
    /\ pc = "done" => ret.difference = Difference(diff_sum, diff_div)
C8_Witness ==
    /\ pc = "done"
    /\ diff_sum > 0
    /\ \E k \in ComparedWindows, i \in Bins :
        NearestScaled(output_log[k].data[i]) # CutScaled(output_log[k].data[i])

\* C9: over construct, Analyse calls, destroy, every resource that was obtained
\* is released exactly once: never twice, and none is left at the end.
C9_ReleasedExactlyOnce ==
    \A r \in Resources :
        /\ released[r] <= acquired[r]
        /\ life = "destroyed" => released[r] = acquired[r]

\* C10: after a failed construction every resource handle of the object is
\* null; none points to released memory.
C10_FailedLeavesNull ==
    life = "failed" => \A r \in Resources : handle[r] = "null"


\* ==== the programs that construct an Analyser ==========================
\* int of analyser.cpp is 32 bits wide
IntMax == 2147483647
IntMin == (-IntMax) - 1
Max(a, b) == IF a > b THEN a ELSE b
Clamp(v, min, max) == Max(min, Min(v, max))
Abs(x) == IF x < 0 THEN -x ELSE x

\* const int valid_windows[5]
ValidWindows == <<512, 1024, 2048, 4096, 8192>>
\* -s is a float; the model counts it in eighths, for which every product
\* and quotient of main is exact in float
ScaleOne == 2 * 4
\* -w as the command line gives it (the default, 1024, among them)
RequestedWindows ==
    {IntMin, IntMin + 512, -IntMax, -1, 0, 1, 511, 512, 700, 768, 769, 1024, 1536, 2000,
     2048, 3072, 4096, 6144, 6145, 8192, 100000, IntMax}
\* -s as the command line gives it, in eighths (the default, 1.0, among them)
RequestedScales == {-8, 0, 1, 2, 3, 4, 8, 12, 16, 24, 64, 65, 800}

\* `ret.window_length - valid_windows[i]` or its abs() leaves the range of int
SubtractionOverflows(w, v) == w < 0 /\ w <= IntMin + v
Overflows(w) == \E i \in 1..Len(ValidWindows) : SubtractionOverflows(w, ValidWindows[i])

\* the loop of ReadSettings from index i on (indices count from 1 here)
RECURSIVE BestWindowFrom(_, _, _, _)
BestWindowFrom(w, i, best_distance, best_window) ==
    IF i > Len(ValidWindows) THEN best_window
    ELSE LET distance == Abs(w - ValidWindows[i])
         IN  IF distance < best_distance
             THEN BestWindowFrom(w, i + 1, distance, i)
             ELSE BestWindowFrom(w, i + 1, best_distance, best_window)

\* signed overflow is undefined: the loop then leaves any of its indices
BestWindows(w) ==
    IF Overflows(w) THEN 1..Len(ValidWindows) ELSE {BestWindowFrom(w, 1, IntMax, 1)}

ReadSettings(w, s) ==
    /\ cmd = None /\ analyser_args = None
    /\ cmd' = [kind |-> "cmd", window |-> w, scale |-> s]
    /\ \E best_window \in BestWindows(w) :
        settings' = [kind |-> "settings",
                     window_length |-> ValidWindows[best_window],
                     scale |-> Clamp(s, ScaleOne \div 4, 8 * ScaleOne)]
    /\ UNCHANGED <<analyser_args, envelope, oscillator, square, onepole, twopoles, noise>>
    /\ UNCHANGED <<analyserVars, programVars>>

\* static_cast<size_t>(20.0f * settings.scale * (float(window_length) / 2048.0f))
OverlapsNo(window_length, scale) == (20 * scale * window_length) \div (ScaleOne * 2048)

\* m_to_read_length = m_window_length / overlaps_no; a division by zero is undefined
ToReadLength(window_length, overlaps_no) ==
    IF overlaps_no = 0 THEN {"undefined"} ELSE {window_length \div overlaps_no}

ConstructedBy(program, window_length, overlaps_no) ==
    \E hop \in ToReadLength(window_length, overlaps_no) :
        analyser_args' = [kind |-> program, window_length |-> window_length,
                          overlaps_no |-> overlaps_no, to_read_length |-> hop]

\* main of analyser.cpp, up to the construction of its Analyser
AnalyserMain ==
    /\ settings # None /\ analyser_args = None
    /\ ConstructedBy("analyser", settings.window_length,
                     OverlapsNo(settings.window_length, settings.scale))
    /\ UNCHANGED <<cmd, settings, envelope, oscillator, square, onepole, twopoles, noise>>
    /\ UNCHANGED <<analyserVars, programVars>>

\* main of 606-hat-open.cpp: Analyser analyser(512, 5)
TunerMain ==
    /\ cmd = None /\ analyser_args = None
    /\ ConstructedBy("606-hat-open", 512, 5)
    /\ UNCHANGED <<cmd, settings, envelope, oscillator, square, onepole, twopoles, noise>>
    /\ UNCHANGED <<analyserVars, programVars>>

\* the process ends; the next run starts from nothing
ProgramExit ==
    /\ analyser_args # None
    /\ cmd' = None /\ settings' = None /\ analyser_args' = None
    /\ UNCHANGED <<envelope, oscillator, square, onepole, twopoles, noise>>
    /\ UNCHANGED <<analyserVars, programVars>>

NextSettings ==
    \/ \E w \in RequestedWindows, s \in RequestedScales : ReadSettings(w, s)
    \/ AnalyserMain
    \/ TunerMain
    \/ ProgramExit

SpecSettings == Init /\ [][NextSettings]_vars

\* v is at least as near to w as u is (the midpoints of valid lengths are whole)
AsNear(w, v, u) ==
    CASE v < u -> w <= (v + u) \div 2
      [] v > u -> w >= (v + u) \div 2
      [] OTHER -> TRUE
ValidSet == {ValidWindows[i] : i \in 1..Len(ValidWindows)}
NearestValid(w) == {v \in ValidSet : \A u \in ValidSet : AsNear(w, v, u)}

\* C11: every Analyser a program constructs has a window length that is an
\* exact multiple of its hop: N % overlaps_no = 0 and hop * overlaps_no = N.
C11_WindowIsMultipleOfHop ==
    analyser_args # None =>
        /\ analyser_args.window_length % analyser_args.overlaps_no = 0
        /\ analyser_args.to_read_length * analyser_args.overlaps_no
               = analyser_args.window_length

\* C12: for every command line the analyser tool constructs its Analyser with
\* the valid window length nearest to the requested one and overlaps_no >= 1,
\* so that 1 <= hop <= N.
C12_NearestValidWindowAndHopInRange ==
    (analyser_args # None /\ analyser_args.kind = "analyser") =>
        /\ analyser_args.window_length \in NearestValid(cmd.window)
        /\ analyser_args.overlaps_no >= 1
        /\ analyser_args.to_read_length \in 1..analyser_args.window_length

\* the part of C12 that holds: a valid length, and a hop within the window
C12_ValidWindowAndHopInRange ==
    (analyser_args # None /\ analyser_args.kind = "analyser") =>
        /\ analyser_args.window_length \in ValidSet
        /\ analyser_args.overlaps_no >= 1
        /\ analyser_args.to_read_length \in 1..analyser_args.window_length

\* C12 for the command lines whose subtractions stay within int
C12_NearestWithoutOverflow ==
    (analyser_args # None /\ analyser_args.kind = "analyser" /\ ~Overflows(cmd.window)) =>
        analyser_args.window_length \in NearestValid(cmd.window)


\* ==== the envelope ======================================================
\* Three editions: "cpp" matsu::AdEnvelope (matsu.cpp), which steps its own
\* cursor m_x; "hpp" AdEnvelope (matsu.hpp), whose Get takes the cursor x
\* from the caller; "hpp2" AdEnvelope2 (matsu.hpp), which steps m_x.
\* Durations are whole milliseconds and sampling frequencies whole Hz, so
\* that (milliseconds * sampling_frequency) / 1000.0 is a ratio of integers.
\* The value returned is kept as the easing applied and its argument num/den.
MaxEnvelopeSteps == 7
\* the length static_cast<size_t> makes of a negative double where it wraps
\* (about 2^64): more samples than any run of the model steps through
Huge == 1000000
EnvelopeEditions == {"cpp", "hpp", "hpp2"}
SamplingFrequencies == {0, 500, 1000}
Durations == {-2, 0, 1, 2, 3, 2000}

\* the conversion of a double to an integer type cuts the fraction
TruncDiv(a, b) == IF a >= 0 THEN a \div b ELSE -((-a) \div b)

\* the outcomes of MillisecondsToSamples: size_t in matsu.cpp, where the cast
\* of a double at or below -1 is undefined (0 where the conversion saturates,
\* a wrapped length elsewhere), int in matsu.hpp
MillisecondsToSamples(which, sampling_frequency, milliseconds) ==
    LET product == milliseconds * sampling_frequency
    IN  IF which = "cpp" /\ product <= -1000
        THEN {0, Huge}
        ELSE {TruncDiv(product, 1000)}

\* m_attack = Max(m_attack, 1.0), in matsu.cpp only
AtLeastOneSample(which, samples) == IF which = "cpp" THEN Max(samples, 1) ELSE samples

NoValue == [segment |-> "none", num |-> 0, den |-> 1]

AdEnvelope(which, sampling_frequency, attack_duration, decay_duration) ==
    /\ envelope = None
    /\ \E attack \in MillisecondsToSamples(which, sampling_frequency, attack_duration),
          decay \in MillisecondsToSamples(which, sampling_frequency, decay_duration) :
        envelope' = [kind |-> which,
                     sampling_frequency |-> sampling_frequency,
                     attack_duration |-> attack_duration,
                     decay_duration |-> decay_duration,
                     m_attack |-> AtLeastOneSample(which, attack),
                     m_decay |-> AtLeastOneSample(which, decay),
                     m_x |-> 0,
                     x |-> -1,
                     out |-> NoValue]
    /\ UNCHANGED <<cmd, settings, analyser_args, oscillator, square, onepole, twopoles, noise>>
    /\ UNCHANGED <<analyserVars, programVars>>

GetTotalSamples(e) == e.m_attack + e.m_decay

\* the body shared by Step and Get: the value at cursor dx.  The decay
\* argument 1.0 - (dx - m_attack) / m_decay is kept as one ratio over m_decay.
EnvelopeValue(e, dx) ==
    IF dx < e.m_attack
    THEN [segment |-> "attack", num |-> dx, den |-> e.m_attack]
    ELSE IF dx < e.m_attack + e.m_decay
         THEN [segment |-> "decay", num |-> e.m_decay - (dx - e.m_attack), den |-> e.m_decay]
         ELSE [segment |-> "zero", num |-> 0, den |-> 1]

\* AdEnvelope::Step (matsu.cpp), AdEnvelope2::Step (matsu.hpp)
AdEnvelopeStep ==
    /\ envelope # None /\ envelope.kind \in {"cpp", "hpp2"}
    /\ envelope.m_x < MaxEnvelopeSteps
    /\ envelope' = [envelope EXCEPT !.m_x = @ + 1,
                                    !.x = envelope.m_x,
                                    !.out = EnvelopeValue(envelope, envelope.m_x)]
    /\ UNCHANGED <<cmd, settings, analyser_args, oscillator, square, onepole, twopoles, noise>>
    /\ UNCHANGED <<analyserVars, programVars>>

\* AdEnvelope::Get (matsu.hpp), with the cursor of the caller's loop
AdEnvelopeGet(x) ==
    /\ envelope # None /\ envelope.kind = "hpp"
    /\ envelope' = [envelope EXCEPT !.x = x, !.out = EnvelopeValue(envelope, x)]
    /\ UNCHANGED <<cmd, settings, analyser_args, oscillator, square, onepole, twopoles, noise>>
    /\ UNCHANGED <<analyserVars, programVars>>

\* the envelope goes out of scope
EnvelopeDiscard ==
    /\ envelope # None
    /\ envelope' = None
    /\ UNCHANGED <<cmd, settings, analyser_args, oscillator, square, onepole, twopoles, noise>>
    /\ UNCHANGED <<analyserVars, programVars>>

NextEnvelope ==
    \/ \E which \in EnvelopeEditions, sf \in SamplingFrequencies,
          a \in Durations, d \in Durations : AdEnvelope(which, sf, a, d)
    \/ AdEnvelopeStep
    \/ \E x \in 0..MaxEnvelopeSteps : AdEnvelopeGet(x)
    \/ EnvelopeDiscard

SpecEnvelope == Init /\ [][NextEnvelope]_vars


\* ---- properties of the envelope
\* an easing of 0 is 0: ExponentialEasing(0, e) = ((exp(0) - 1) / ...) * Sign(0)
IsZero(out) == out.segment = "zero" \/ (out.segment \in {"attack", "decay"} /\ out.num = 0)
Stepped == envelope # None /\ envelope.kind \in {"cpp", "hpp2"} /\ envelope.m_x >= 1
Asked == envelope # None /\ envelope.x >= 0

\* C13: GetTotalSamples() is ceil(A + D); once Step has been called that many
\* times, the next Step and every later Step returns 0.
C13_ZeroAfterTotalSamples ==
    (Stepped /\ GetTotalSamples(envelope) >= 0 /\ envelope.m_x > GetTotalSamples(envelope))
        => IsZero(envelope.out)

\* C13 for matsu.cpp, whose lengths are at least 1
C13_ZeroAfterTotalSamplesCpp ==
    (Stepped /\ envelope.kind = "cpp" /\ envelope.m_x > GetTotalSamples(envelope))
        => IsZero(envelope.out)

\* C13 for every edition when neither length is negative
C13_ZeroAfterTotalSamplesNonNegative ==
    (Stepped /\ envelope.m_attack >= 0 /\ envelope.m_decay >= 0
             /\ envelope.m_x > GetTotalSamples(envelope))
        => IsZero(envelope.out)

\* C14: every constructed envelope has an attack and a decay of at least one
\* sample, whatever the durations, so no Step or Get divides by a zero length.
C14_LengthsAtLeastOne ==
    envelope # None =>
        /\ envelope.m_attack >= 1
        /\ envelope.m_decay >= 1
        /\ envelope.out.den # 0

\* C14 for matsu.cpp
C14_LengthsAtLeastOneCpp ==
    (envelope # None /\ envelope.kind = "cpp") =>
        envelope.m_attack >= 1 /\ envelope.m_decay >= 1

\* no edition divides by a zero length
C14_NoDivisionByZero == envelope # None => envelope.out.den # 0

\* C15: at cursor x the envelope returns the attack easing of x/attack in
\* [0, attack), the decay easing of 1 - (x - attack)/decay in
\* [attack, attack + decay) and 0 beyond; the first value is the attack easing
\* of 0, the value at x = attack is the decay easing of exactly 1, and the
\* decay argument stays above 0 inside the decay segment.
C15_EnvelopeShape ==
    Asked =>
        LET x == envelope.x
            A == envelope.m_attack
            D == envelope.m_decay
            out == envelope.out
        IN  /\ (x < A) => out = [segment |-> "attack", num |-> x, den |-> A]
            /\ (A <= x /\ x < A + D) =>
                   /\ out = [segment |-> "decay", num |-> D - (x - A), den |-> D]
                   /\ out.num > 0
            /\ (x >= A /\ x >= A + D) => out.segment = "zero"
            /\ (x = 0) => (out.segment = "attack" /\ out.num = 0)
            /\ (x = A) => (out.segment = "decay" /\ out.num = out.den)

\* C15 for matsu.cpp
C15_EnvelopeShapeCpp == (Asked /\ envelope.kind = "cpp") => C15_EnvelopeShape


\* ==== the oscillators ===================================================
\* Editions of the swept sine: "cpp" matsu::Oscillator (matsu.cpp), "hpp"
\* Oscillator (matsu.hpp, stepped with the easing [](double x) { return x; }
\* of 606-hat-open.cpp), "hpp2" Oscillator2 (matsu.hpp).
\* Angles count in PhaseTurn units to 2*pi, sweep positions in SweepOne
\* units to 1.0, feedback levels in FeedbackOne units to 1.0.  The arguments
\* are chosen so that every quotient of the code is a whole number of units.
\* m_feedback and the returned signal need sin(); m_phase and m_sweep never
\* read them and they are not part of the state.  The constructors of
\* matsu.hpp divide by the sampling frequency as given; the model constructs
\* those editions with a positive sampling frequency only.
PhaseTurn == 48
SweepOne == 6
FeedbackOne == 2
\* 1.0 / 0.0
Infinity == 1000000
\* the result of 0.0 / 0.0, a value no computation of the model yields
NaN == -(2 * Infinity)
MaxOscillatorSteps == 4

OscillatorEditions == {"cpp", "hpp", "hpp2"}
OscillatorSamplingFrequencies(which) == IF which = "cpp" THEN {0, 8} ELSE {8}
Frequencies(which) == IF which = "cpp" THEN {0, 1, 2} ELSE {1, 2}
FeedbackLevels == {-2, 0, 1, 4}
SweepDurations == {-250, 0, 100, 125, 250}
SweepMultipliers == {-1, 0, 1, 2}
\* sweep shapes: 0, and 1 for e = ln 4, where exp(e) = 4 and exp(e / 2) = 2
SweepShapes == {0, 1}
InitialPhases == {-12, 0, 24, PhaseTurn, PhaseTurn + 12}

\* fmod: the result has the sign of the dividend
Fmod(x, m) == IF x >= 0 THEN x % m ELSE -((-x) % m)
Mix(x, y, a) == x + TruncDiv((y - x) * a, SweepOne)
RECURSIVE Pow2(_)
Pow2(k) == IF k = 0 THEN 1 ELSE 2 * Pow2(k - 1)

\* ExponentialEasing(x, e) at a position that is a whole number of halves:
\* ((exp(e * |x|) - 1) / (exp(e) - 1)) * Sign(x), with exp(e) = 4.
\* For e = 0 matsu.cpp returns x; matsu.hpp divides 0 by 0 and returns NaN.
ExponentialEasing(which, x, e) ==
    IF e = 0
    THEN IF which = "cpp" THEN x ELSE NaN
    ELSE LET k == Abs(x) \div (SweepOne \div 2)
             magnitude == (SweepOne * (Pow2(k) - 1)) \div 3
         IN  IF x > 0 THEN magnitude ELSE -magnitude

\* the sweep a Step interpolates with, from the position m_sweep.
\* Min(NaN, 1.0) is 1.0: `NaN < 1.0` is false
SweepUsed(o) ==
    CASE o.kind = "cpp" -> ExponentialEasing("cpp", o.m_sweep, o.m_sweep_shape)
      [] o.kind = "hpp" -> Min(o.m_sweep, SweepOne)
      [] o.kind = "hpp2" ->
            LET eased == ExponentialEasing("hpp", SweepOne - o.m_sweep, o.m_sweep_shape)
            IN  IF eased = NaN THEN SweepOne ELSE Min(SweepOne - eased, SweepOne)

\* 1.0 / static_cast<double>(MillisecondsToSamples(duration, sampling_frequency))
SweepDelta(which, duration, sampling_frequency) ==
    LET samples == CHOOSE n \in MillisecondsToSamples(which, sampling_frequency, duration) : TRUE
    IN  IF samples = 0 THEN Infinity ELSE TruncDiv(SweepOne, samples)

PhaseDelta(frequency, sampling_frequency) == (frequency * PhaseTurn) \div sampling_frequency

\* matsu::Oscillator::Oscillator
OscillatorCpp(sampling_frequency, frequency, feedback_level, sweep_duration, sweep_multiply, sweep_shape) ==
    LET sf == Max(sampling_frequency, 1)
        f == Max(frequency, 1)
        level == Clamp(feedback_level, 0, FeedbackOne)
        duration == Max(sweep_duration, 0)
        multiply == Max(sweep_multiply, 0)
    IN  [kind |-> "cpp",
         sampling_frequency |-> sampling_frequency, frequency |-> frequency,
         feedback_level |-> feedback_level, sweep_duration |-> sweep_duration,
         sweep_multiply |-> sweep_multiply,
         m_phase |-> 0,
         m_phase_delta_a |-> PhaseDelta(f, sf),
         m_phase_delta_b |-> PhaseDelta(f, sf) * multiply,
         m_sweep |-> 0,
         m_sweep_delta |-> IF duration # 0 THEN SweepDelta("cpp", duration, sf) ELSE 0,
         m_sweep_shape |-> sweep_shape,
         m_feedback_level |-> level,
         calls |-> 0, position |-> 0, sweep |-> 0, phase_delta |-> 0]

\* Oscillator::Oscillator and Oscillator2::Oscillator2 of matsu.hpp
OscillatorHpp(which, frequency_a, frequency_b, feedback_level_a, feedback_level_b, duration, sweep_shape, sampling_frequency) ==
    [kind |-> which,
     sampling_frequency |-> sampling_frequency, frequency |-> frequency_a,
     feedback_level |-> feedback_level_a, sweep_duration |-> duration,
     sweep_multiply |-> 1,
     m_phase |-> 0,
     m_phase_delta_a |-> PhaseDelta(frequency_a, sampling_frequency),
     m_phase_delta_b |-> PhaseDelta(frequency_b, sampling_frequency),
     m_sweep |-> 0,
     m_sweep_delta |-> SweepDelta(which, duration, sampling_frequency),
     m_sweep_shape |-> sweep_shape,
     m_feedback_level |-> feedback_level_a,
     m_feedback_level_b |-> feedback_level_b,
     calls |-> 0, position |-> 0, sweep |-> 0, phase_delta |-> 0]

\* the model holds one oscillator at a time
Oscillator(o) ==
    /\ oscillator = None /\ square = None
    /\ oscillator' = o
    /\ UNCHANGED <<cmd, settings, analyser_args, envelope, square, onepole, twopoles, noise>>
    /\ UNCHANGED <<analyserVars, programVars>>

\* Step of the three editions; `position` is m_sweep as the call found it
OscillatorAfterStep(o) ==
    LET sweep == SweepUsed(o)
        phase_delta == Mix(o.m_phase_delta_a, o.m_phase_delta_b, sweep)
    IN  [o EXCEPT !.m_phase = Fmod(o.m_phase + phase_delta, PhaseTurn),
                  !.m_sweep = Min(o.m_sweep + o.m_sweep_delta, SweepOne),
                  !.calls = @ + 1,
                  !.position = o.m_sweep,
                  !.sweep = sweep,
                  !.phase_delta = phase_delta]

OscillatorStep ==
    /\ oscillator # None
    /\ oscillator.calls < MaxOscillatorSteps
    /\ oscillator' = OscillatorAfterStep(oscillator)
    /\ UNCHANGED <<cmd, settings, analyser_args, envelope, square, onepole, twopoles, noise>>
    /\ UNCHANGED <<analyserVars, programVars>>

\* matsu::SquareOscillator::SquareOscillator takes an initial phase;
\* SquareOscillator of matsu.hpp starts at 0.0
SquareOscillator(which, sampling_frequency, frequency, phase) ==
    /\ square = None /\ oscillator = None
    /\ square' = [kind |-> which,
                  sampling_frequency |-> sampling_frequency, frequency |-> frequency,
                  m_phase |-> IF which = "cpp" THEN phase ELSE 0,
                  m_phase_delta |-> IF which = "cpp"
                                    THEN PhaseDelta(Max(frequency, 1), Max(sampling_frequency, 1))
                                    ELSE PhaseDelta(frequency, sampling_frequency),
                  out |-> 0]
    /\ UNCHANGED <<cmd, settings, analyser_args, envelope, oscillator, onepole, twopoles, noise>>
    /\ UNCHANGED <<analyserVars, programVars>>

SquareOscillatorStep ==
    /\ square # None
    /\ LET phase == Fmod(square.m_phase + square.m_phase_delta, PhaseTurn)
       IN  square' = [square EXCEPT !.m_phase = phase,
                                    !.out = IF phase > PhaseTurn \div 2 THEN -1 ELSE 1]
    /\ UNCHANGED <<cmd, settings, analyser_args, envelope, oscillator, onepole, twopoles, noise>>
    /\ UNCHANGED <<analyserVars, programVars>>

OscillatorDiscard ==
    /\ oscillator # None \/ square # None
    /\ oscillator' = None /\ square' = None
    /\ UNCHANGED <<cmd, settings, analyser_args, envelope, onepole, twopoles, noise>>
    /\ UNCHANGED <<analyserVars, programVars>>

NextOscillator ==
    \/ \E sf \in OscillatorSamplingFrequencies("cpp"), f \in Frequencies("cpp"),
          level \in FeedbackLevels, duration \in SweepDurations,
          multiply \in SweepMultipliers, shape \in SweepShapes :
            Oscillator(OscillatorCpp(sf, f, level, duration, multiply, shape))
    \/ \E which \in {"hpp", "hpp2"} :
       \E sf \in OscillatorSamplingFrequencies(which),
          fa \in Frequencies(which), fb \in Frequencies(which),
          la \in {0, 1}, lb \in {0, 1},
          duration \in SweepDurations, shape \in SweepShapes :
            Oscillator(OscillatorHpp(which, fa, fb, la, lb, duration, shape, sf))
    \/ OscillatorStep
    \/ \E which \in {"cpp", "hpp"} :
       \E sf \in OscillatorSamplingFrequencies(which), f \in Frequencies(which),
          phase \in InitialPhases :
            SquareOscillator(which, sf, f, phase)
    \/ SquareOscillatorStep
    \/ OscillatorDiscard

SpecOscillator == Init /\ [][NextOscillator]_vars

\* ---- properties of the oscillators
InTurn(phase) == 0 <= phase /\ phase < PhaseTurn

\* C16: the phase of every oscillator is in [0, 2*pi) in every reachable
\* state, after construction with any arguments and after any Step calls.
C16_PhaseWithinTurn ==
    /\ oscillator # None => InTurn(oscillator.m_phase)
    /\ square # None => InTurn(square.m_phase)

\* C16 for the swept sine of matsu.cpp, which clamps its arguments
C16_PhaseWithinTurnSweptCpp ==
    (oscillator # None /\ oscillator.kind = "cpp") => InTurn(oscillator.m_phase)

\* C17: the sweep position starts at 0, never decreases from one Step to the
\* next and never exceeds 1; a Step interpolates with the position it found,
\* before its increment, so the first Step uses target a exactly.
C17_SweepMonotoneFromZero ==
    oscillator # None =>
        /\ oscillator.calls = 0 => oscillator.m_sweep = 0
        /\ oscillator.m_sweep <= SweepOne
        /\ oscillator.calls >= 1 =>
               /\ oscillator.m_sweep >= oscillator.position
               /\ oscillator.sweep = SweepUsed([oscillator EXCEPT !.m_sweep = oscillator.position])
        /\ oscillator.calls = 1 => oscillator.phase_delta = oscillator.m_phase_delta_a

\* C17 for matsu.cpp
C17_SweepMonotoneFromZeroCpp ==
    (oscillator # None /\ oscillator.kind = "cpp") => C17_SweepMonotoneFromZero


\* ==== the filters =======================================================
\* matsu::OnePoleFilter and matsu::TwoPolesFilter of matsu.cpp; the Step
\* bodies of matsu.hpp are the same statements.
\* Signals and coefficients count in CoefOne units to 1.0 and Q in QOne units
\* to 1.0; products and quotients round toward zero to the unit.  cutoff /
\* sampling_frequency is a whole number of eighths for every argument of the
\* model, so wo is a multiple of pi/4: cos and sin come from a table and
\* exp(-2*pi*k/8) is the k-th power of exp(-pi/4).
CoefOne == 1000
QOne == 100
MaxFilterSteps == 3
\* exp(-pi/4) = 0.4559..., cos(pi/4) = 0.7071...
ExpEighth == 456
CosEighth == 707

FilterTypes == {"Lowpass", "Highpass"}
FilterSamplingFrequencies == {0, 4, 8}
Cutoffs == {0, 1, 2}
Qs == {0, QOne \div 2, QOne}
\* the samples a caller feeds: -1.0, 0.0, 1.0
FilterInputs == {-CoefOne, 0, CoefOne}

Times(a, b) == TruncDiv(a * b, CoefOne)
Over(a, b) == IF a >= 0 THEN TruncDiv(a * CoefOne, b) ELSE -TruncDiv((-a) * CoefOne, b)

\* cutoff / sampling_frequency in eighths
Eighths(cutoff, sampling_frequency) == (8 * cutoff) \div sampling_frequency

RECURSIVE ExpMinusTwoPi(_)
ExpMinusTwoPi(eighths) ==
    IF eighths = 0 THEN CoefOne ELSE Times(ExpEighth, ExpMinusTwoPi(eighths - 1))

CosTable == <<CoefOne, CosEighth, 0, -CosEighth, -CoefOne, -CosEighth, 0, CosEighth>>
Cos(eighths) == CosTable[(eighths % 8) + 1]
Sin(eighths) == Cos(eighths + 6)

X1 == 0
Y1 == 1
X2 == 2
Y2 == 3
B1 == X1
A1 == Y1
B2 == X2
A2 == Y2

\* m_c of the one-pole filter, from the arguments as given
OnePoleCoefficient(sampling_frequency, cutoff) ==
    LET sf == Max(sampling_frequency, 1)
        c == Max(cutoff, 1)
    IN  CoefOne - ExpMinusTwoPi(Eighths(c, sf))

\* m_c_b0 and m_c[] of the two-pole filter, from the arguments as given
TwoPolesCoefficients(sampling_frequency, type, cutoff, q) ==
    LET sf == Max(sampling_frequency, 1)
        c == Max(cutoff, 1)
        qq == Max(q, QOne \div 100)
        wo == Eighths(c, sf)
        alpha == TruncDiv(Sin(wo) * QOne, 2 * qq)
        a0 == CoefOne + alpha
        b0 == IF type = "Lowpass" THEN (CoefOne - Cos(wo)) \div 2 ELSE (CoefOne + Cos(wo)) \div 2
        b1 == IF type = "Lowpass" THEN CoefOne - Cos(wo) ELSE -(CoefOne + Cos(wo))
        b2 == b0
        a1 == -(2 * Cos(wo))
        a2 == CoefOne - alpha
    IN  [m_c_b0 |-> Over(b0, a0),
         m_c |-> [i \in 0..3 |->
                    CASE i = B1 -> Over(b1, a0)
                      [] i = B2 -> Over(b2, a0)
                      [] i = A1 -> -Over(a1, a0)
                      [] i = A2 -> -Over(a2, a0)]]

\* the model holds one filter at a time
OnePoleFilter(sampling_frequency, type, cutoff) ==
    /\ onepole = None /\ twopoles = None
    /\ onepole' = [kind |-> "cpp",
                   sampling_frequency |-> sampling_frequency, cutoff |-> cutoff,
                   m_s |-> 0,
                   m_c |-> OnePoleCoefficient(sampling_frequency, cutoff),
                   m_type |-> IF type = "Lowpass" THEN 0 ELSE 1,
                   calls |-> 0, out |-> 0]
    /\ UNCHANGED <<cmd, settings, analyser_args, envelope, oscillator, square, twopoles, noise>>
    /\ UNCHANGED <<analyserVars, programVars>>

OnePoleAfterStep(f, x) ==
    LET s == f.m_s + Times(x - f.m_s, f.m_c)
    IN  [f EXCEPT !.m_s = s,
                  !.calls = @ + 1,
                  !.out = IF f.m_type = 0 THEN s ELSE x - s]

OnePoleFilterStep(x) ==
    /\ onepole # None
    /\ onepole.calls < MaxFilterSteps
    /\ onepole' = OnePoleAfterStep(onepole, x)
    /\ UNCHANGED <<cmd, settings, analyser_args, envelope, oscillator, square, twopoles, noise>>
    /\ UNCHANGED <<analyserVars, programVars>>

TwoPolesFilter(sampling_frequency, type, cutoff, q) ==
    /\ onepole = None /\ twopoles = None
    /\ LET c == TwoPolesCoefficients(sampling_frequency, type, cutoff, q)
       IN  twopoles' = [kind |-> "cpp",
                        sampling_frequency |-> sampling_frequency, type |-> type,
                        cutoff |-> cutoff, q |-> q,
                        m_s |-> [i \in 0..3 |-> 0],
                        m_c |-> c.m_c,
                        m_c_b0 |-> c.m_c_b0,
                        calls |-> 0, out |-> 0]
    /\ UNCHANGED <<cmd, settings, analyser_args, envelope, oscillator, square, onepole, noise>>
    /\ UNCHANGED <<analyserVars, programVars>>

TwoPolesOutput(f, x) ==
    Times(f.m_c_b0, x)
    + Times(f.m_c[B1], f.m_s[X1]) + Times(f.m_c[B2], f.m_s[X2])
    + Times(f.m_c[A1], f.m_s[Y1]) + Times(f.m_c[A2], f.m_s[Y2])

\* a Step that keeps its history in the coefficient array
TwoPolesAfterStepInCoefficients(f, x) ==
    LET y == TwoPolesOutput(f, x)
    IN  [f EXCEPT !.m_c = [i \in 0..3 |->
                             CASE i = Y2 -> f.m_c[Y1]
                               [] i = X2 -> f.m_c[X1]
                               [] i = Y1 -> y
                               [] i = X1 -> x],
                  !.calls = @ + 1,
                  !.out = y]

\* a Step that stores y and x before it moves the older pair
TwoPolesAfterStepShiftedLate(f, x) ==
    LET y == TwoPolesOutput(f, x)
    IN  [f EXCEPT !.m_s = [i \in 0..3 |->
                             CASE i = Y2 -> y
                               [] i = X2 -> x
                               [] i = Y1 -> y
                               [] i = X1 -> x],
                  !.calls = @ + 1,
                  !.out = y]

TwoPolesAfterStep(f, x) ==
    LET y == TwoPolesOutput(f, x)
    IN  [f EXCEPT !.m_s = [i \in 0..3 |->
                             CASE i = Y2 -> f.m_s[Y1]
                               [] i = X2 -> f.m_s[X1]
                               [] i = Y1 -> y
                               [] i = X1 -> x],
                  !.calls = @ + 1,
                  !.out = y]

TwoPolesFilterStep(x) ==
    /\ twopoles # None
    /\ twopoles.calls < MaxFilterSteps
    /\ twopoles' = TwoPolesAfterStep(twopoles, x)
    /\ UNCHANGED <<cmd, settings, analyser_args, envelope, oscillator, square, onepole, noise>>
    /\ UNCHANGED <<analyserVars, programVars>>

FilterDiscard ==
    /\ onepole # None \/ twopoles # None
    /\ onepole' = None /\ twopoles' = None
    /\ UNCHANGED <<cmd, settings, analyser_args, envelope, oscillator, square, noise>>
    /\ UNCHANGED <<analyserVars, programVars>>

NextFilter ==
    \/ \E sf \in FilterSamplingFrequencies, type \in FilterTypes, cutoff \in Cutoffs :
        OnePoleFilter(sf, type, cutoff)
    \/ \E x \in FilterInputs : OnePoleFilterStep(x)
    \/ \E sf \in FilterSamplingFrequencies, type \in FilterTypes, cutoff \in Cutoffs, q \in Qs :
        TwoPolesFilter(sf, type, cutoff, q)
    \/ \E x \in FilterInputs : TwoPolesFilterStep(x)
    \/ FilterDiscard

SpecFilter == Init /\ [][NextFilter]_vars

\* ---- properties of the filters
\* C18: Step of a one-pole or two-pole filter never changes the coefficients:
\* after any Steps with any inputs they are the values the constructor
\* computed; only the history changes.
C18_CoefficientsFixed ==
    /\ onepole # None =>
           onepole.m_c = OnePoleCoefficient(onepole.sampling_frequency, onepole.cutoff)
    /\ twopoles # None =>
           LET c == TwoPolesCoefficients(twopoles.sampling_frequency, twopoles.type,
                                         twopoles.cutoff, twopoles.q)
           IN  twopoles.m_c = c.m_c /\ twopoles.m_c_b0 = c.m_c_b0

\* a two-pole filter whose whole history has moved since construction
C18_Witness ==
    /\ twopoles # None
    /\ twopoles.calls = MaxFilterSteps
    /\ \A i \in 0..3 : twopoles.m_s[i] # 0
    /\ \E i \in 0..3 : twopoles.m_c[i] # 0

\* a one-pole filter whose history has moved since construction
C18_OnePoleStepped == onepole # None /\ onepole.calls >= 2 /\ onepole.m_s # 0


\* ---- properties of the constructors
\* the lengths matsu::AdEnvelope would have with the sampling frequency raised to 1
ClampedLengths(e, duration) ==
    {AtLeastOneSample("cpp", n) :
        n \in MillisecondsToSamples("cpp", Max(e.sampling_frequency, 1), duration)}

C19_EnvelopeClamped ==
    (envelope # None /\ envelope.kind = "cpp") =>
        /\ envelope.m_attack \in ClampedLengths(envelope, envelope.attack_duration)
        /\ envelope.m_decay \in ClampedLengths(envelope, envelope.decay_duration)

C19_OscillatorsClamped ==
    /\ (oscillator # None /\ oscillator.kind = "cpp") =>
        LET sf == Max(oscillator.sampling_frequency, 1)
            f == Max(oscillator.frequency, 1)
            duration == Max(oscillator.sweep_duration, 0)
        IN  /\ oscillator.m_phase_delta_a = PhaseDelta(f, sf)
            /\ oscillator.m_phase_delta_b = PhaseDelta(f, sf) * Max(oscillator.sweep_multiply, 0)
            /\ oscillator.m_feedback_level \in 0..FeedbackOne
            /\ oscillator.m_feedback_level =
                   IF oscillator.feedback_level < 0 THEN 0
                   ELSE IF oscillator.feedback_level > FeedbackOne THEN FeedbackOne
                   ELSE oscillator.feedback_level
            /\ oscillator.m_sweep_delta =
                   IF duration = 0 THEN 0 ELSE SweepDelta("cpp", duration, sf)
    /\ (square # None /\ square.kind = "cpp") =>
        square.m_phase_delta = PhaseDelta(Max(square.frequency, 1), Max(square.sampling_frequency, 1))

C19_FiltersClamped ==
    /\ onepole # None =>
        onepole.m_c = OnePoleCoefficient(Max(onepole.sampling_frequency, 1), Max(onepole.cutoff, 1))
    /\ twopoles # None =>
        LET c == TwoPolesCoefficients(Max(twopoles.sampling_frequency, 1), twopoles.type,
                                      Max(twopoles.cutoff, 1), Max(twopoles.q, QOne \div 100))
        IN  twopoles.m_c = c.m_c /\ twopoles.m_c_b0 = c.m_c_b0

\* C19: no constructor of a primitive reports an error; each replaces an
\* out-of-range argument by its safe bound before deriving state (sampling
\* frequency, frequency and cutoff below 1 by 1, Q below 0.01 by 0.01, feedback
\* level outside [0, 1] by the nearer bound, negative sweep duration or
\* multiplier by 0), for the oscillators, both filters and the envelope.
C19_ArgumentsClamped ==
    /\ C19_OscillatorsClamped
    /\ C19_FiltersClamped
    /\ C19_EnvelopeClamped


\* ==== the noise generator ===============================================
\* A uint64_t is the set of the positions of its 1 bits (bit 0 the lowest):
\* 0 is {}, 1 is {0}; ^ is the symmetric difference and the shifts move the
\* positions, dropping those that leave the word.  The value Random returns,
\* x * 0x2545F4914F6CDD1D, does not enter the state and is not computed.
WordBits == 64
MaxNoiseSteps == 20
Bits == 0..(WordBits - 1)
\* seeds: 0, every power of two, all ones, and some mixed words
Seeds ==
    {{}} \cup {{i} : i \in Bits} \cup {Bits}
         \cup {{0, 63}, {31, 32}, {12, 25, 27}, {i \in Bits : i % 2 = 0}}

Xor(a, b) == (a \ b) \cup (b \ a)
ShiftRight(x, k) == {i - k : i \in {j \in x : j >= k}}
ShiftLeft(x, k) == {i + k : i \in {j \in x : j + k < WordBits}}

\* the state Random leaves in *state
Random(state) ==
    LET x1 == Xor(state, ShiftRight(state, 12))
        x2 == Xor(x1, ShiftLeft(x1, 25))
        x3 == Xor(x2, ShiftRight(x2, 27))
    IN  x3

\* a constructor that keeps the seed as given
SeedAsGiven(seed) == seed

\* m_state = Max(seed, static_cast<uint64_t>(1))
SeedAtLeastOne(seed) == IF seed = {} THEN {0} ELSE seed

NoiseGenerator(seed) ==
    /\ noise = None
    /\ noise' = [kind |-> "cpp", seed |-> seed, m_state |-> SeedAtLeastOne(seed), calls |-> 0]
    /\ UNCHANGED <<cmd, settings, analyser_args, envelope, oscillator, square, onepole, twopoles>>
    /\ UNCHANGED <<analyserVars, programVars>>

\* NoiseGenerator::Step: RandomFloat(&m_state)
NoiseGeneratorStep ==
    /\ noise # None
    /\ noise.calls < MaxNoiseSteps
    /\ noise' = [noise EXCEPT !.m_state = Random(noise.m_state), !.calls = @ + 1]
    /\ UNCHANGED <<cmd, settings, analyser_args, envelope, oscillator, square, onepole, twopoles>>
    /\ UNCHANGED <<analyserVars, programVars>>

NoiseDiscard ==
    /\ noise # None
    /\ noise' = None
    /\ UNCHANGED <<cmd, settings, analyser_args, envelope, oscillator, square, onepole, twopoles>>
    /\ UNCHANGED <<analyserVars, programVars>>

NextNoise ==
    \/ \E seed \in Seeds : NoiseGenerator(seed)
    \/ NoiseGeneratorStep
    \/ NoiseDiscard

SpecNoise == Init /\ [][NextNoise]_vars

\* ---- properties of the noise generator
\* C20: the state of the noise generator is at least 1 after construction
\* with any seed, 0 included, and is never 0 after any number of Steps.
C20_StateNeverZero == noise # None => noise.m_state # {}

\* a generator seeded with 0 that has stepped to the bound
C20_Witness == noise # None /\ noise.seed = {} /\ noise.calls = MaxNoiseSteps


\* ==== Distortion ========================================================
\* Distortion(x, e, asymmetry) of matsu.cpp and of matsu.hpp.  x and the value
\* returned are counted in DistortionOne-ths, e in multiples of ln 4 and the
\* asymmetry in halves, so that every exp() is a power of two and every
\* quotient of the code is exact.  A double that is no number is the fraction
\* 0/0, an infinite one is 1/0 or -1/0, as the division of IEEE 754 gives them.
DistortionOne == 30
HalfOne == 2
DistortionEditions == {"cpp", "hpp"}
DistortionInputs == {-DistortionOne, -(DistortionOne \div 2), 0, DistortionOne \div 2, DistortionOne}
Amounts == {-1, 0, 1}
Asymmetries == {-HalfOne, -1, 0, 1, HalfOne}

Fraction(n, d) == [num |-> n, den |-> d]
IsNaN(f) == f.num = 0 /\ f.den = 0
IsInfinite(f) == f.num # 0 /\ f.den = 0
SignOf(n) == IF n > 0 THEN 1 ELSE IF n < 0 THEN -1 ELSE 0

\* a * b of two doubles
Product(a, b) ==
    IF IsNaN(a) \/ IsNaN(b) THEN Fraction(0, 0)
    ELSE IF IsInfinite(a) \/ IsInfinite(b)
         THEN Fraction(SignOf(a.num) * SignOf(b.num), 0)
         ELSE Fraction(a.num * b.num, a.den * b.den)

\* a / b of two doubles
Quotient(a, b) ==
    IF IsNaN(a) \/ IsNaN(b) THEN Fraction(0, 0)
    ELSE IF IsInfinite(a) /\ IsInfinite(b) THEN Fraction(0, 0)
    ELSE IF IsInfinite(a) THEN Fraction(SignOf(a.num) * (IF b.num < 0 THEN -1 ELSE 1), 0)
    ELSE IF IsInfinite(b) THEN Fraction(0, 1)
    ELSE IF b.num = 0 THEN Fraction(SignOf(a.num), 0)
    ELSE Fraction(a.num * b.den * SignOf(b.num), a.den * Abs(b.num))

\* exp(t * ln 2) - 1.0, t a whole number of ln 2 given as a fraction
ExpMinusOne(t) ==
    IF IsNaN(t) THEN Fraction(0, 0)
    ELSE IF IsInfinite(t) THEN (IF t.num > 0 THEN Fraction(1, 0) ELSE Fraction(-1, 1))
    ELSE LET n == t.num \div t.den
         IN  IF n >= 0 THEN Fraction(Pow2(n) - 1, 1)
             ELSE Fraction(1 - Pow2(-n), Pow2(-n))

\* a double as the model counts the value returned
InDistortionOnes(f) ==
    IF IsNaN(f) THEN NaN
    ELSE IF IsInfinite(f) THEN f.num * Infinity
    ELSE TruncDiv(DistortionOne * f.num, f.den)

\* Distortion without the test of e
DistortionCurve(x, e, asymmetry) ==
    LET xf == Fraction(x, DistortionOne)
        \* e in multiples of ln 2
        ef == Fraction(2 * e, 1)
        af == Fraction(asymmetry, HalfOne)
        inverse == Quotient(Fraction(1, 1), af)
        minus_x == Fraction(-x, DistortionOne)
    IN  IF x > 0
        THEN InDistortionOnes(Quotient(ExpMinusOne(Product(xf, ef)), ExpMinusOne(ef)))
        ELSE InDistortionOnes(
                 Product(Product(Fraction(-1, 1),
                                 Quotient(ExpMinusOne(Product(Product(minus_x, ef), inverse)),
                                          ExpMinusOne(Product(ef, inverse)))),
                         af))

\* matsu.cpp returns x when e == 0.0; matsu.hpp has no such test
Distortion(which, x, e, asymmetry) ==
    IF which = "cpp" /\ e = 0 THEN x ELSE DistortionCurve(x, e, asymmetry)

DistortionCall(which, x, e, asymmetry) ==
    /\ distorted = None
    /\ distorted' = [kind |-> which, x |-> x, e |-> e, asymmetry |-> asymmetry,
                     out |-> Distortion(which, x, e, asymmetry)]
    /\ UNCHANGED <<tuner, hat, exported>>
    /\ UNCHANGED <<analyserVars, dspVars>>

\* the value is used by the caller, nothing of the call remains
DistortionReturn ==
    /\ distorted # None
    /\ distorted' = None
    /\ UNCHANGED <<tuner, hat, exported>>
    /\ UNCHANGED <<analyserVars, dspVars>>

NextDistortion ==
    \/ \E which \in DistortionEditions, x \in DistortionInputs, e \in Amounts, asymmetry \in Asymmetries :
           DistortionCall(which, x, e, asymmetry)
    \/ DistortionReturn

SpecDistortion == Init /\ [][NextDistortion]_vars

\* ---- properties of Distortion
\* C21: Distortion(x, amount, asymmetry) returns x itself for every x
\* (positive, zero and negative) and every asymmetry when amount is 0; it
\* never evaluates the division by exp(0) - 1.
C21_ZeroAmountIsIdentity ==
    (distorted # None /\ distorted.e = 0) => distorted.out = distorted.x

\* the same of matsu.cpp alone
C21_ZeroAmountIsIdentityCpp ==
    (distorted # None /\ distorted.kind = "cpp" /\ distorted.e = 0) => distorted.out = distorted.x

\* away from amount 0 the curve keeps 0 and 1 in place for a positive asymmetry
C21_CurveFixesEnds ==
    (distorted # None /\ distorted.e # 0) =>
        /\ distorted.x = DistortionOne => distorted.out = DistortionOne
        /\ (distorted.x = -DistortionOne /\ distorted.asymmetry > 0) =>
               distorted.out = -(DistortionOne * distorted.asymmetry) \div HalfOne


\* ==== the tuner of 606-hat-open.cpp =====================================
\* main of 606-hat-open.cpp.  A gain is counted in TunerOne-ths and a product
\* is cut to a whole number of them.  The code runs 16 generations of 16
\* candidates; the model runs Generations of Candidates.  The 64-bit state r
\* of RandomFloat is not computed: each draw is any value of RandomFloats.
\* Analyse is the model of the Analyser above; here a call is its position in
\* the two streams when it starts, the samples it takes and the difference it
\* returns, any value of Scores.
Generations == 2
Candidates == 3
TunerOne == 1000
QuarterOne == 4
NoiseGainMax == 60
DistortionMax == 8000
Fields == {"short_gain", "long_gain", "noise_gain", "distortion", "clink_gain"}
\* the fields lines 148-151 assign, in the order of their draws
Tweaked == <<"short_gain", "long_gain", "noise_gain", "distortion">>
\* Settings s of main, lines 129-134
DefaultSettings ==
    [short_gain |-> 817, long_gain |-> 1066, noise_gain |-> 60, distortion |-> 5341, clink_gain |-> 30]
\* RandomFloat returns a double of [-1, 1), here in quarters
RandomFloats == {-QuarterOne, 0, QuarterOne - 1}
\* four consecutive draws
Draws == {<<-QuarterOne, 0, QuarterOne - 1, QuarterOne - 1>>, <<QuarterOne - 1, -QuarterOne, -QuarterOne, 0>>}
\* analysis.difference
Scores == {0, 1}
\* what the memory of Settings childs[16] and float childs_score[16] holds
\* before anything is assigned to it
Indeterminate == {0, 30}
\* the samples one Analyse call takes from each stream
StreamLength == 2

\* s.field * (RandomFloat(&r) * 0.75 + 1.25)
Tweak(value, random) == TruncDiv(value * (random * 3 + 5 * QuarterOne), 4 * QuarterOne)

\* Min(childs[ch].noise_gain, 0.06) and Min(childs[ch].distortion, 8.0)
Rules(field, value) ==
    IF field = "noise_gain" THEN Min(value, NoiseGainMax)
    ELSE IF field = "distortion" THEN Min(value, DistortionMax)
    ELSE value

IndexOf(field) == CHOOSE i \in 1..Len(Tweaked) : Tweaked[i] = field

\* lines 148-154: the fields of childs[ch] after the tweak, the others as they were
TweakedChild(child, s, draw) ==
    [f \in Fields |->
        IF \E i \in 1..Len(Tweaked) : Tweaked[i] = f
        THEN Rules(f, Tweak(s[f], draw[IndexOf(f)]))
        ELSE child[f]]

\* lines 199-204
RECURSIVE FirstBestFrom(_, _, _)
FirstBestFrom(score, i, first_best) ==
    IF i = Candidates THEN first_best
    ELSE FirstBestFrom(score, i + 1, IF score[i] < score[first_best] THEN i ELSE first_best)

FirstBest(score) == FirstBestFrom(score, 0, 0)

\* lines 206-213
RECURSIVE SecondBestFrom(_, _, _, _)
SecondBestFrom(score, first_best, i, second_best) ==
    IF i = Candidates THEN second_best
    ELSE IF i = first_best THEN SecondBestFrom(score, first_best, i + 1, second_best)
    ELSE SecondBestFrom(score, first_best, i + 1,
                        IF score[i] < score[second_best] THEN i ELSE second_best)

\* a second loop that does not skip the first winner
SecondBestOfAll(score, first_best) == FirstBestFrom(score, 0, (first_best + 1) % Candidates)

SecondBest(score, first_best) == SecondBestFrom(score, first_best, 0, (first_best + 1) % Candidates)

\* exp((log(a) + log(b)) / 2.0): log of a negative number is no number, log(0)
\* is -inf and exp(-inf) is 0; else the root of the product, cut
GeometricMean(a, b) ==
    IF a < 0 \/ b < 0 THEN NaN
    ELSE IF a = 0 \/ b = 0 THEN 0
    ELSE CHOOSE r \in Min(a, b)..Max(a, b) : r * r <= a * b /\ (r + 1) * (r + 1) > a * b

\* lines 218-221
Mixed(s, first, second) ==
    [f \in Fields |->
        IF \E i \in 1..Len(Tweaked) : Tweaked[i] = f
        THEN GeometricMean(first[f], second[f])
        ELSE s[f]]

\* a loop that runs one generation more
OneGenerationMore(g) == g = Generations + 1

\* g < 16 fails
GenerationsDone(g) == g = Generations

\* lines 105-141
TuneStart(reference, junk) ==
    /\ tuner = None
    /\ tuner' = [pc |-> IF reference THEN "tweak" ELSE "render",
                 reference |-> reference,
                 s |-> DefaultSettings,
                 childs |-> [i \in 0..(Candidates - 1) |-> [f \in Fields |-> junk]],
                 assigned |-> [i \in 0..(Candidates - 1) |-> {}],
                 childs_score |-> [i \in 0..(Candidates - 1) |-> junk],
                 g |-> 0, ch |-> 0,
                 first_best |-> 0, second_best |-> 0,
                 input_a |-> 0, input_b |-> 0, read_from |-> <<0, 0>>,
                 rendered |-> DefaultSettings,
                 renders |-> 0, analyses |-> 0, final_renders |-> 0]
    /\ UNCHANGED <<distorted, hat, exported>>
    /\ UNCHANGED <<analyserVars, dspVars>>

\* lines 145-196, one pass of the inner loop: tweak, render, compare
TuneCandidate(draw, score) ==
    /\ tuner # None
    /\ tuner.pc = "tweak"
    /\ LET ch == tuner.ch
           child == TweakedChild(tuner.childs[ch], tuner.s, draw)
       IN  tuner' = [tuner EXCEPT
                        !.childs[ch] = child,
                        !.assigned[ch] = @ \cup {Tweaked[i] : i \in 1..Len(Tweaked)},
                        !.rendered = child,
                        !.renders = @ + 1,
                        \* input_a = reference_data, input_b = render_buffer, then Analyse
                        !.read_from = <<0, 0>>,
                        !.input_a = 0 + StreamLength,
                        !.input_b = 0 + StreamLength,
                        !.analyses = @ + 1,
                        !.childs_score[ch] = score,
                        !.ch = ch + 1,
                        !.pc = IF ch + 1 = Candidates THEN "choose" ELSE "tweak"]
    /\ UNCHANGED <<distorted, hat, exported>>
    /\ UNCHANGED <<analyserVars, dspVars>>

\* lines 198-215
ChooseBest ==
    /\ tuner # None
    /\ tuner.pc = "choose"
    /\ LET first_best == FirstBest(tuner.childs_score)
       IN  tuner' = [tuner EXCEPT
                        !.first_best = first_best,
                        !.second_best = SecondBest(tuner.childs_score, first_best),
                        !.pc = "mix"]
    /\ UNCHANGED <<distorted, hat, exported>>
    /\ UNCHANGED <<analyserVars, dspVars>>

\* lines 217-225 and the step of the outer loop
MixBest ==
    /\ tuner # None
    /\ tuner.pc = "mix"
    /\ tuner' = [tuner EXCEPT
                    !.s = Mixed(tuner.s, tuner.childs[tuner.first_best], tuner.childs[tuner.second_best]),
                    !.g = @ + 1,
                    !.ch = 0,
                    !.pc = IF GenerationsDone(tuner.g + 1) THEN "render" ELSE "tweak"]
    /\ UNCHANGED <<distorted, hat, exported>>
    /\ UNCHANGED <<analyserVars, dspVars>>

\* line 228 after the tuning, line 234 without a reference
FinalRender ==
    /\ tuner # None
    /\ tuner.pc = "render"
    /\ tuner' = [tuner EXCEPT
                    !.rendered = tuner.s,
                    !.renders = @ + 1,
                    !.final_renders = @ + 1,
                    !.pc = "done"]
    /\ UNCHANGED <<distorted, hat, exported>>
    /\ UNCHANGED <<analyserVars, dspVars>>

\* lines 237-243
TuneExit ==
    /\ tuner # None
    /\ tuner.pc = "done"
    /\ tuner' = None
    /\ UNCHANGED <<distorted, hat, exported>>
    /\ UNCHANGED <<analyserVars, dspVars>>

NextTuner ==
    \/ \E reference \in BOOLEAN, junk \in Indeterminate : TuneStart(reference, junk)
    \/ \E draw \in Draws, score \in Scores : TuneCandidate(draw, score)
    \/ ChooseBest
    \/ MixBest
    \/ FinalRender
    \/ TuneExit

SpecTuner == Init /\ [][NextTuner]_vars

\* main runs on: every step that can be taken is taken
FairSpecTuner == SpecTuner /\ WF_vars(NextTuner)


\* ---- properties of the tuner
Candidate == 0..(Candidates - 1)
Chosen == tuner # None /\ tuner.pc = "mix"

\* C22: after the candidates of a generation are scored, the first winner has
\* a minimal score among all candidates, the second winner is a different
\* candidate, and the second winner's score is minimal among all candidates
\* other than the first winner.
C22_WinnersAreTheTwoBest ==
    Chosen =>
        LET score == tuner.childs_score
            first == tuner.first_best
            second == tuner.second_best
        IN  /\ first \in Candidate /\ second \in Candidate
            /\ \A i \in Candidate : score[first] <= score[i]
            /\ second # first
            /\ \A i \in Candidate \ {first} : score[second] <= score[i]

\* winners chosen where candidate 0 is not the best and the second winner is
\* strictly worse than the first
C22_Witness ==
    /\ Chosen
    /\ tuner.first_best # 0
    /\ tuner.childs_score[tuner.second_best] > tuner.childs_score[tuner.first_best]


\* a candidate of the running generation has been rendered: it is childs[ch - 1]
\* and tuner.s is the best guess it was made of
Rendered == tuner # None /\ tuner.pc \in {"tweak", "choose", "mix"} /\ tuner.ch > 0

FieldIsSet(f) ==
    /\ f \in tuner.assigned[tuner.ch - 1]
    /\ \E random \in RandomFloats : tuner.rendered[f] = Rules(f, Tweak(tuner.s[f], random))

\* C23: before a candidate is rendered, each scalar field of its parameter
\* struct (short_gain, long_gain, noise_gain, distortion, clink_gain) equals
\* the same field of the current best guess scaled by its own random factor
\* and clamped to that field's bound; no field of a rendered candidate is
\* left unset.
C23_CandidateFullySet ==
    Rendered =>
        /\ tuner.rendered = tuner.childs[tuner.ch - 1]
        /\ \A f \in Fields : FieldIsSet(f)

\* the same of the four fields lines 148-151 assign
C23_TweakedFieldsSet ==
    Rendered =>
        /\ tuner.rendered = tuner.childs[tuner.ch - 1]
        /\ \A f \in Fields \ {"clink_gain"} : FieldIsSet(f)

\* what a candidate is rendered with in place of clink_gain is the content of
\* the memory before the tuning
C23_ClinkGainIsIndeterminate ==
    Rendered => tuner.rendered.clink_gain \in Indeterminate


Tuning == tuner # None /\ tuner.reference
PerGeneration == Candidates

\* the renders and Analyse calls made at each position of main
C24_Counts ==
    Tuning =>
        /\ tuner.read_from = <<0, 0>>
        /\ tuner.pc \in {"tweak", "choose", "mix"} =>
            /\ tuner.g < Generations
            /\ tuner.ch <= PerGeneration
            /\ tuner.pc = "tweak" => tuner.ch < PerGeneration
            /\ tuner.pc \in {"choose", "mix"} => tuner.ch = PerGeneration
            /\ tuner.renders = tuner.g * PerGeneration + tuner.ch
            /\ tuner.analyses = tuner.renders
            /\ tuner.final_renders = 0
        /\ tuner.pc = "render" =>
            /\ tuner.g = Generations
            /\ tuner.renders = Generations * PerGeneration
            /\ tuner.analyses = tuner.renders
            /\ tuner.final_renders = 0
        /\ tuner.pc = "done" =>
            /\ tuner.g = Generations
            /\ tuner.renders = Generations * PerGeneration + 1
            /\ tuner.analyses = Generations * PerGeneration
            /\ tuner.final_renders = 1
            /\ tuner.rendered = tuner.s
            /\ tuner.s = Mixed(tuner.s, tuner.childs[tuner.first_best], tuner.childs[tuner.second_best])

\* a step that renders a candidate makes one Analyse call from the start of
\* both streams, and no other step calls Analyse
C24_OneAnalysePerCandidate ==
    (tuner # None /\ tuner' # None) =>
        /\ (tuner'.ch = tuner.ch + 1) =>
            /\ tuner'.renders = tuner.renders + 1
            /\ tuner'.analyses = tuner.analyses + 1
            /\ tuner'.read_from = <<0, 0>>
            /\ tuner'.rendered = tuner'.childs[tuner.ch]
        /\ (tuner'.ch # tuner.ch + 1) =>
            /\ tuner'.analyses = tuner.analyses
            /\ tuner'.renders = tuner.renders + (tuner'.final_renders - tuner.final_renders)

\* C24: when a reference recording is given, the tuner runs exactly
\* Generations generations of Candidates candidates (16 of 16 in the code),
\* renders each candidate once and scores it with exactly one Analyse call
\* that reads both streams from their beginning, then terminates and makes
\* exactly one production render with the parameters mixed in the last
\* generation.
C24_TunesThenRendersOnce ==
    /\ []C24_Counts
    /\ [][C24_OneAnalysePerCandidate]_vars
    /\ (Tuning ~> (Tuning /\ tuner.pc = "done"))

\* a tuning that has ended
C24_Witness == Tuning /\ tuner.pc = "done" /\ tuner.final_renders = 1


\* a generation has ended: tuner.s is the new best guess, and the winners are
\* still childs[first_best] and childs[second_best]
GenerationEnded == tuner # None /\ tuner.g > 0 /\ tuner.ch = 0 /\ tuner.pc \in {"tweak", "render"}

Between(v, a, b) == Min(a, b) <= v /\ v <= Max(a, b)

BetweenWinners(f) ==
    Between(tuner.s[f], tuner.childs[tuner.first_best][f], tuner.childs[tuner.second_best][f])

\* C30: at the end of every tuner generation each field of the new best guess
\* lies between the two winners' values of that field (inclusive) and is
\* strictly positive, and the best guess satisfies noise_gain <= 0.06 and
\* distortion <= 8.0; so the logarithms taken in the next generation's mix
\* are always of positive numbers.
C30_BestGuessBetweenWinners ==
    GenerationEnded =>
        /\ \A f \in Fields : BetweenWinners(f) /\ tuner.s[f] > 0
        /\ tuner.s.noise_gain <= NoiseGainMax
        /\ tuner.s.distortion <= DistortionMax

\* the same of the four fields the mix assigns
C30_MixedFieldsBetweenWinners ==
    GenerationEnded =>
        /\ \A f \in Fields \ {"clink_gain"} : BetweenWinners(f) /\ tuner.s[f] > 0
        /\ tuner.s.noise_gain <= NoiseGainMax
        /\ tuner.s.distortion <= DistortionMax

\* the logarithms of the mix are of positive numbers
C30_LogarithmsOfPositive ==
    (tuner # None /\ tuner.pc = "mix") =>
        \A f \in Fields \ {"clink_gain"} :
            tuner.childs[tuner.first_best][f] > 0 /\ tuner.childs[tuner.second_best][f] > 0


\* ==== the renders of 606-hats.cpp =======================================
\* main of 606-hats.cpp and Hat606::Render.  render_buffer is the static
\* array every render writes to.  A sample is kept as what the code computes
\* it from: the sum of squares read back from the buffer, the position of the
\* two envelopes and the state of the noise generator at that sample; the
\* filters, the distortion and the two normalisations are functions of these
\* and of the samples before.  Lengths are in milliseconds at a sampling
\* frequency of 1000 or 2000; one of the six squares stands for all.
MaxRenders == 4
HatBufferLength == 2 * 4
HatAttackSamples == 2
HatSamplingFrequencies == {1000, 2000}
\* Settings::DefaultHatOpen() and DefaultHatClosed()
DefaultHatOpen == [name |-> "open", long_length |-> 2, short_length |-> 1, frequency |-> 250]
DefaultHatClosed == [name |-> "closed", long_length |-> 0, short_length |-> 1, frequency |-> 250]
HatSettings == {DefaultHatOpen, DefaultHatClosed}
\* the seed of NoiseGenerator()
DefaultSeed == {0}
\* static double render_buffer[]: zero before the first render
Silence == [metallic |-> 0, sample |-> 0, noise |-> {}]

\* (samples / sampling_frequency) * 1000.0
SamplesToMilliseconds(sampling_frequency, samples) == (samples * 1000) \div sampling_frequency

\* m_attack + m_decay of AdEnvelope(sampling_frequency, attack, decay, ...)
HatEnvelopeSamples(sampling_frequency, attack_duration, decay_duration) ==
    LET attack == CHOOSE n \in MillisecondsToSamples("cpp", sampling_frequency, attack_duration) : TRUE
        decay == CHOOSE n \in MillisecondsToSamples("cpp", sampling_frequency, decay_duration) : TRUE
    IN  AtLeastOneSample("cpp", attack) + AtLeastOneSample("cpp", decay)

\* line 155
HatSamples(parameters, sampling_frequency) ==
    LET attack == SamplesToMilliseconds(sampling_frequency, HatAttackSamples)
    IN  Max(HatEnvelopeSamples(sampling_frequency, attack, parameters.long_length),
            HatEnvelopeSamples(sampling_frequency, attack, parameters.short_length))

\* m_state after n calls of noise.Step()
RECURSIVE RandomAfter(_, _)
RandomAfter(state, n) == IF n = 0 THEN state ELSE RandomAfter(Random(state), n - 1)

\* what squares.Step() returns at its n-th call, the phase starting at 0
RECURSIVE SquarePhaseAfter(_, _)
SquarePhaseAfter(delta, n) ==
    IF n = 0 THEN 0 ELSE Fmod(SquarePhaseAfter(delta, n - 1) + delta, PhaseTurn)

SquaresStep(parameters, sampling_frequency, n) ==
    LET phase == SquarePhaseAfter(PhaseDelta(Max(parameters.frequency, 1), Max(sampling_frequency, 1)), n)
    IN  IF phase > PhaseTurn \div 2 THEN -1 ELSE 1

\* a first loop that adds to what the buffer holds
AddedToOutput(old, signal) == old.metallic + signal

\* line 168: output[i] = signal
WrittenToOutput(old, signal) == signal

\* lines 159-170: the buffer after the first loop
MetallicPass(parameters, sampling_frequency, samples, output) ==
    [i \in 0..(HatBufferLength - 1) |->
        IF i < samples
        THEN [output[i] EXCEPT !.metallic = WrittenToOutput(output[i], SquaresStep(parameters, sampling_frequency, i + 1))]
        ELSE output[i]]

\* lines 173-207: the buffer after the other loops; each reads output[i] and
\* writes it back
EnvelopedPass(samples, seed, output) ==
    [i \in 0..(HatBufferLength - 1) |->
        IF i < samples
        THEN [metallic |-> output[i].metallic, sample |-> i + 1, noise |-> RandomAfter(seed, i + 1)]
        ELSE output[i]]

\* Hat606::Render: the sample count and the buffer it leaves
Hat606Render(parameters, sampling_frequency, output) ==
    LET samples == HatSamples(parameters, sampling_frequency)
        noise_state == SeedAtLeastOne(DefaultSeed)
    IN  [samples |-> samples,
         output |-> EnvelopedPass(samples, noise_state,
                                  MetallicPass(parameters, sampling_frequency, samples, output))]

\* main, before the first render
HatsMain ==
    /\ hat = None
    /\ hat' = [render_buffer |-> [i \in 0..(HatBufferLength - 1) |-> Silence],
               render_length |-> 0,
               renders |-> <<>>]
    /\ UNCHANGED <<distorted, tuner, exported>>
    /\ UNCHANGED <<analyserVars, dspVars>>

\* render_length = Hat606::Render(settings, SAMPLING_FREQUENCY, render_buffer)
HatRender(parameters, sampling_frequency) ==
    /\ hat # None
    /\ Len(hat.renders) < MaxRenders
    /\ LET render == Hat606Render(parameters, sampling_frequency, hat.render_buffer)
       IN  hat' = [hat EXCEPT
                      !.render_buffer = render.output,
                      !.render_length = render.samples,
                      !.renders = Append(@, [settings |-> parameters,
                                             sampling_frequency |-> sampling_frequency,
                                             samples |-> render.samples,
                                             written |-> [i \in 0..(render.samples - 1) |-> render.output[i]]])]
    /\ UNCHANGED <<distorted, tuner, exported>>
    /\ UNCHANGED <<analyserVars, dspVars>>

\* return 0
HatsExit ==
    /\ hat # None
    /\ hat' = None
    /\ UNCHANGED <<distorted, tuner, exported>>
    /\ UNCHANGED <<analyserVars, dspVars>>

NextHat ==
    \/ HatsMain
    \/ \E parameters \in HatSettings, sampling_frequency \in HatSamplingFrequencies :
           HatRender(parameters, sampling_frequency)
    \/ HatsExit

SpecHat == Init /\ [][NextHat]_vars

\* ---- properties of the renders
SameRender(a, b) == a.settings = b.settings /\ a.sampling_frequency = b.sampling_frequency

\* C25: rendering an instrument twice with the same parameter struct and
\* sampling frequency writes the same sample count and the same sample values
\* both times: a render reads no state left by an earlier render, and its
\* noise generator always starts from the same seed.
C25_RendersRepeat ==
    hat # None =>
        \A i \in 1..Len(hat.renders), j \in 1..Len(hat.renders) :
            SameRender(hat.renders[i], hat.renders[j]) =>
                /\ hat.renders[i].samples = hat.renders[j].samples
                /\ hat.renders[i].written = hat.renders[j].written
                /\ hat.renders[i].written[0].noise = Random(SeedAtLeastOne(DefaultSeed))

\* the closed hat rendered over silence and again over what a longer render
\* of the open hat left in the buffer
C25_Witness ==
    /\ hat # None
    /\ Len(hat.renders) >= 3
    /\ SameRender(hat.renders[1], hat.renders[3])
    /\ hat.renders[1].settings = DefaultHatClosed
    /\ hat.renders[2].settings = DefaultHatOpen
    /\ hat.renders[2].samples > hat.renders[1].samples


\* ==== the exports =======================================================
\* ExportAudioS24 and ExportAudioF64 of matsu.cpp (and of matsu.hpp), and
\* ExportIndexedImage of analyser.cpp.  A call is one action: its arguments,
\* the step that fails in it (or none), what it returns and whether the file
\* holds the data afterwards.  The two audio exports are void: what the
\* caller gets from them is NoStatus.
ExitSuccess == 0
ExitFailure == 1
NoStatus == -1
\* UINT8_MAX + 1
PaletteMax == 256
\* UINT_MAX, of 16 bits here
UintMax == 65535
AudioExports == {"ExportAudioS24", "ExportAudioF64"}
\* the steps of an export that can fail
AudioFaults(function) ==
    IF function = "ExportAudioS24" THEN {"none", "malloc", "open", "write"}
    ELSE {"none", "open", "write"}
ImageFaults == {"none", "palette_add", "encode", "open", "write"}
AudioLengths == 0..3
PaletteLengths == {2, PaletteMax, PaletteMax + 1}
ImageSides == {1, 2, UintMax + 1}

\* matsu::ExportAudioS24, matsu::ExportAudioF64: no return value; a failed
\* malloc returns early, the results of drwav_init_file_write and
\* drwav_write_pcm_frames are not looked at
ExportAudioStatus(function, fault) == NoStatus

AudioWritten(function, fault) == fault = "none"

\* ExportIndexedImage: return 1 on the first failure, 0 at the end
ExportIndexedImageStatus(palette_length, width, height, fault) ==
    IF palette_length > PaletteMax \/ width > UintMax \/ height > UintMax THEN ExitFailure
    ELSE IF fault = "palette_add" THEN ExitFailure
    ELSE IF fault = "encode" THEN ExitFailure
    ELSE IF fault = "open" THEN ExitFailure
    ELSE IF fault = "write" THEN ExitFailure
    ELSE ExitSuccess

ImageWritten(palette_length, width, height, fault) ==
    /\ palette_length <= PaletteMax /\ width <= UintMax /\ height <= UintMax
    /\ fault = "none"

ExportAudio(function, length, fault) ==
    /\ exported = None
    /\ exported' = [function |-> function, length |-> length, fault |-> fault,
                    io_failed |-> fault # "none",
                    status |-> ExportAudioStatus(function, fault),
                    written |-> AudioWritten(function, fault)]
    /\ UNCHANGED <<distorted, tuner, hat>>
    /\ UNCHANGED <<analyserVars, dspVars>>

ExportIndexedImage(palette_length, width, height, fault) ==
    /\ exported = None
    /\ exported' = [function |-> "ExportIndexedImage",
                    palette_length |-> palette_length, width |-> width, height |-> height,
                    fault |-> fault,
                    \* no step runs after the test of the arguments fails
                    io_failed |-> fault # "none" /\ palette_length <= PaletteMax
                                  /\ width <= UintMax /\ height <= UintMax,
                    status |-> ExportIndexedImageStatus(palette_length, width, height, fault),
                    written |-> ImageWritten(palette_length, width, height, fault)]
    /\ UNCHANGED <<distorted, tuner, hat>>
    /\ UNCHANGED <<analyserVars, dspVars>>

\* the caller goes on
ExportReturn ==
    /\ exported # None
    /\ exported' = None
    /\ UNCHANGED <<distorted, tuner, hat>>
    /\ UNCHANGED <<analyserVars, dspVars>>

NextExport ==
    \/ \E function \in AudioExports, length \in AudioLengths :
           \E fault \in AudioFaults(function) : ExportAudio(function, length, fault)
    \/ \E palette_length \in PaletteLengths, width \in ImageSides, height \in ImageSides, fault \in ImageFaults :
           ExportIndexedImage(palette_length, width, height, fault)
    \/ ExportReturn

SpecExport == Init /\ [][NextExport]_vars

\* ---- properties of the exports
StatusTellsOutcome ==
    /\ exported.io_failed => exported.status = ExitFailure
    /\ exported.status = ExitSuccess => exported.written
    /\ exported.status \in {ExitSuccess, ExitFailure}

\* C26: every file I/O failure of the export collaborators reaches the caller
\* as a status code: a failed allocation, file open or write in the WAV
\* exports and in the PNG export makes the call return a failure status, and
\* a status of success is returned only when the file was written.
C26_FailuresReachCaller == exported # None => StatusTellsOutcome

\* the same of the PNG export alone
C26_ImageFailuresReachCaller ==
    (exported # None /\ exported.function = "ExportIndexedImage") => StatusTellsOutcome

\* the audio exports give the caller nothing, whatever happened
C26_AudioExportsAreSilent ==
    (exported # None /\ exported.function \in AudioExports) => exported.status = NoStatus


\* ---- the history of the two-pole filter
TwoPolesStepped == twopoles # None /\ twopoles' # None /\ twopoles'.calls = twopoles.calls + 1

\* what a Step leaves, from the filter before it
StepShiftsHistory ==
    TwoPolesStepped =>
        \E x \in FilterInputs :
            /\ twopoles'.out = TwoPolesOutput(twopoles, x)
            /\ twopoles'.m_s[X1] = x
            /\ twopoles'.m_s[Y1] = twopoles'.out
            /\ twopoles'.m_s[X2] = twopoles.m_s[X1]
            /\ twopoles'.m_s[Y2] = twopoles.m_s[Y1]

NewFilterHasNoHistory ==
    (twopoles # None /\ twopoles.calls = 0) => \A i \in 0..3 : twopoles.m_s[i] = 0

\* C27: a two-pole Step(x) computes y from x and the history as it was before
\* the call, then shifts: after the call x[n-1] = x, y[n-1] = y, x[n-2] = the
\* previous x[n-1], y[n-2] = the previous y[n-1]; so after two or more calls
\* the history is the last two inputs and the last two returned outputs, in
\* order.  For a new filter all four are 0.
C27_StepShiftsHistory == []NewFilterHasNoHistory /\ [][StepShiftsHistory]_vars

\* a filter after two Steps or more whose two pairs differ
C27_Witness ==
    /\ twopoles # None
    /\ twopoles.calls >= 2
    /\ twopoles.m_s[X2] # twopoles.m_s[X1]
    /\ twopoles.m_s[Y2] # twopoles.m_s[Y1]
    /\ twopoles.m_s[Y2] # 0


\* ---- properties of an Analyser used for more than one call
\* Analyse has been entered and has read nothing yet
Entered == pc = "read1" /\ reads_a = <<>>
Silent(stream) == \A k \in 1..Len(stream) : stream[k] = 0

\* what a call starts from and, for the streams whose Output is known without
\* running a second Analyser (silence), what it returns
IndependentOfEarlierCalls ==
    /\ Entered =>
        /\ m_buffer_a = Zeros(m_window_length)
        /\ m_buffer_b = Zeros(m_window_length)
    /\ (pc = "done" /\ Silent(stream_a) /\ Silent(stream_b)) =>
        /\ ret.difference.num = 0
        /\ \A k \in 1..Len(output_log) : \A i \in Bins : output_log[k].data[i] = 0

\* C28: the Output of an Analyse call and the buffers it passes to onWindow
\* depend only on the samples that call's sources deliver: calling Analyse
\* again on the same Analyser instance gives the same Output, whatever an
\* earlier Analyse call on that instance analysed (no samples of an earlier
\* call remain in the window buffers).
C28_NothingRemainsOfEarlierCalls == IndependentOfEarlierCalls

\* the same of matsu.cpp alone
C28_NothingRemainsOfEarlierCallsCpp == impl = "cpp" => IndependentOfEarlierCalls

\* the same of the first call on an instance of either edition
C28_FirstCallStartsClean == ~reused => IndependentOfEarlierCalls


\* ---- the push and the pull envelope
\* the shapes given to a push envelope: 0.0 and one that is not 0
EasingShapes == {0, 1}

\* ExponentialEasing(x, shape) of an edition applied to the value of a segment,
\* kept as the argument and what is done to it: at shape 0 matsu.cpp returns
\* x and matsu.hpp divides 0 by 0
Eased(which, value, shape) ==
    IF value.segment \in {"zero", "none"} THEN [value |-> value, easing |-> "none"]
    ELSE IF shape # 0 THEN [value |-> value, easing |-> "exponential"]
    ELSE IF which = "cpp" THEN [value |-> value, easing |-> "identity"]
    ELSE [value |-> NoValue, easing |-> "nan"]

\* AdEnvelope of matsu.hpp made with the arguments of the push envelope e
PullOf(e) ==
    [kind |-> "hpp",
     m_attack |-> CHOOSE n \in MillisecondsToSamples("hpp", e.sampling_frequency, e.attack_duration) : TRUE,
     m_decay |-> CHOOSE n \in MillisecondsToSamples("hpp", e.sampling_frequency, e.decay_duration) : TRUE]

\* a push envelope that has made Step number x + 1
Pushed == envelope # None /\ envelope.kind \in {"cpp", "hpp2"} /\ envelope.x >= 0

PushAgreesWithPull ==
    /\ GetTotalSamples(envelope) = GetTotalSamples(PullOf(envelope))
    /\ \A shape \in EasingShapes :
           Eased(IF envelope.kind = "cpp" THEN "cpp" ELSE "hpp", envelope.out, shape)
               = Eased("hpp", EnvelopeValue(PullOf(envelope), envelope.x), shape)

\* C29: the push and pull envelope styles agree: for the same attack and decay
\* durations and sampling frequency, the n-th call of Step() (n >= 1) on the
\* push envelope returns the value Get(n - 1, a, d) returns on the pull
\* envelope when a and d are ExponentialEasing with the push envelope's attack
\* and decay shapes, and both report the same GetTotalSamples().
C29_PushAgreesWithPull == Pushed => PushAgreesWithPull

\* the same of the two envelopes of matsu.hpp, AdEnvelope2 and AdEnvelope
C29_PushAgreesWithPullHpp == (Pushed /\ envelope.kind = "hpp2") => PushAgreesWithPull

\* the same of matsu.cpp where both segments are a sample or longer and the
\* shapes are not 0
C29_PushAgreesWithPullLong ==
    (Pushed /\ envelope.kind = "cpp" /\ PullOf(envelope).m_attack >= 1 /\ PullOf(envelope).m_decay >= 1
        /\ envelope.m_attack < Huge /\ envelope.m_decay < Huge) =>
        /\ GetTotalSamples(envelope) = GetTotalSamples(PullOf(envelope))
        /\ Eased("cpp", envelope.out, 1) = Eased("hpp", EnvelopeValue(PullOf(envelope), envelope.x), 1)
====
